---- MODULE Spec2Model ----
(***************************************************************************)
(* Model of the random-asset discovery job of the immich Discord selfbot   *)
(* (cogs/random_commands.py), the per-user registries it works through     *)
(* (utils/state_utils.py) and the account-tier size limits                 *)
(* (utils/config.py).                                                      *)
(*                                                                         *)
(* The bot runs on one asyncio event loop: a coroutine runs until it       *)
(* reaches an await that really suspends (a Discord call, asyncio.gather). *)
(* The gateway calls of utils/asset_utils.py use the blocking `requests`   *)
(* library, so they do not suspend.  A job's pc is therefore either an     *)
(* await point (AwaitPcs) or a running position, and no other coroutine    *)
(* takes a step while some job is at a running position.                   *)
(***************************************************************************)
EXTENDS Integers, Sequences, FiniteSets, TLC

\* ------------------------------------------------------------------ bounds
MaxCount == 2
MaxAttemptsBound == 2
NumUsers == 2
MaxArgs == 2
MaxMagnitude == 12
MaxTicks == 6

\* --------------------------------------------------------- program constants
BatchCapLoose == 5 + 1

BatchCap == 5
\* AssetCommands.max_file_size_bytes for MAX_FILE_SIZE_MB=25
max_file_size_bytes == 25 * 1000000

NoSize == -1
NoMedia == "none"
NoAsset == 0
NoJob == 0

Users == 1..NumUsers
Jobs == {1, 2}
Tiers == {"basic", "nitro_basic", "nitro"}

DISCORD_UPLOAD_LIMITS ==
    [t \in Tiers |-> CASE t = "basic" -> 25 * 1000000
                       [] t = "nitro_basic" -> 50 * 1000000
                       [] OTHER -> 500 * 1000000]

\* The remote catalogue the gateway samples from: asset id |-> metadata
\* (type already lower-cased as process_random_assets does).
Assets == {1, 2}
AssetType(a) == IF a = 1 THEN "image" ELSE "video"
AssetSize(a) == IF a = 1 THEN 1000000 ELSE 30000000

Min(a, b) == IF a < b THEN a ELSE b

\* Python truthiness of an Optional[int]: None and 0 are both false.
Truthy(x) == x # NoSize /\ x # 0

VARIABLES
    job,          \* per invocation of process_random_assets: locals and pc
    req,          \* per invocation: the arguments it was called with
    activeJobs,   \* StateManager._active_jobs
    lastAsset,    \* StateManager._last_fetched_assets
    accountType,  \* user_preferences[u]['account_type']
    maxAttempts,  \* user_preferences[u]['max_attempts']
    msgDeleted,   \* command messages that no longer exist
    cancelCmd,    \* per user: the `cancel` command handler
    regOp,        \* the StateManager job operation last applied, its result
    cmd,          \* per invocation: the words of the `random` command, if
                  \* the invocation was made by one
    last_fetched_asset,  \* AssetCommands.last_fetched_asset
    cogOp,        \* the asset or favorite command last handled
    user_preferences,    \* Config.user_preferences
    prefsFile,    \* data/preferences.json
    prefOp,       \* the preference operation last handled
    sizeOp,       \* a size being formatted or parsed on its own
    clock,        \* asyncio.get_event_loop().time(), in seconds
    asset_cache,  \* RandomCommands.asset_cache
    direct,       \* per user: the `random` command handler of AssetCommands
    startup       \* on_ready: the extensions loaded, the commands registered

cogVars == <<last_fetched_asset, cogOp>>
prefVars == <<user_preferences, prefsFile, prefOp>>

\* the state outside the discovery job and the `cancel` command
extra == <<regOp, cmd, cogVars, prefVars, sizeOp, clock, asset_cache,
          direct, startup>>

vars == <<job, req, activeJobs, lastAsset, accountType, maxAttempts,
          msgDeleted, cancelCmd, extra>>

AwaitPcs == {"reject_edit", "start_edit", "retry_edit", "gather", "for_edit",
             "found_edit", "cancel_edit", "noresult_edit", "delete_msg",
             "send", "handler"}
\* a job that is suspended at an await, or not running at all
Suspended(j) == job[j].pc \in AwaitPcs \cup {"off", "cmd", "idle", "done"}
\* job j may take a step: no other coroutine is in the middle of a run
CanRun(j) == \A k \in Jobs \ {j} : Suspended(k)
LoopFree == \A k \in Jobs : Suspended(k)

NoJobState == [present |-> FALSE, should_cancel |-> FALSE, message |-> NoJob]
NoAssetState == [asset_id |-> NoAsset, message_id |-> <<0, 0>>]
NoCancelCmd == [pc |-> "idle", search_msg |-> NoJob, ret |-> FALSE]
NoPrefOp == [name |-> "none", user |-> 0, setting |-> "", value |-> <<>>,
             acked |-> FALSE, file |-> [kind |-> "absent", prefs |-> <<>>]]
NoCogOp == [name |-> "none", user |-> 0, asset |-> NoAsset, ok |-> FALSE]
NoCmd == [issued |-> FALSE, args |-> <<>>]
NoSizeOp == [name |-> "none", class |-> "none", n |-> 0, unit |-> <<>>,
             text |-> <<>>, value |-> -1]
NoRegOp == [name |-> "none", user |-> 0, message |-> NoJob, ret |-> FALSE,
            before |-> [u \in Users |-> NoJobState]]

\* ------------------------------------------------- utils/state_utils.py
start_job_keep_existing(reg, u, m) ==
    IF reg[u].present
    THEN reg
    ELSE [reg EXCEPT ![u] = [present |-> TRUE, should_cancel |-> FALSE, message |-> m]]

start_job(reg, u, m) ==
    [reg EXCEPT ![u] = [present |-> TRUE, should_cancel |-> FALSE, message |-> m]]

cancel_job_creating(reg, u) ==
    [reg EXCEPT ![u] = [present |-> TRUE, should_cancel |-> TRUE, message |-> @.message]]

cancel_job(reg, u) ==
    IF reg[u].present THEN [reg EXCEPT ![u].should_cancel = TRUE] ELSE reg

cancel_job_result(reg, u) == reg[u].present

should_cancel(reg, u) == IF reg[u].present THEN reg[u].should_cancel ELSE FALSE

get_search_message(reg, u) == IF reg[u].present THEN reg[u].message ELSE NoJob

end_job_unless_cancelling(reg, u) ==
    IF reg[u].should_cancel THEN reg ELSE [reg EXCEPT ![u] = NoJobState]

end_job(reg, u) == [reg EXCEPT ![u] = NoJobState]

set_last_asset_first_only(reg, u, a, m) ==
    IF reg[u].asset_id = NoAsset
    THEN [reg EXCEPT ![u] = [asset_id |-> a, message_id |-> m]]
    ELSE reg

set_last_asset(reg, u, a, m) ==
    [reg EXCEPT ![u] = [asset_id |-> a, message_id |-> m]]

get_last_asset(reg, u) == reg[u]

clear_last_asset(reg, u) == [reg EXCEPT ![u] = NoAssetState]

\* ------------------------------------------------------------------ text
\* A Python str is a sequence of one-character strings.
LowerChar(c) ==
    LET upper == <<"A", "B", "C", "D", "E", "F", "G", "H", "I", "J", "K", "L",
                   "M", "N", "O", "P", "Q", "R", "S", "T", "U", "V", "W", "X",
                   "Y", "Z">>
        lowers == <<"a", "b", "c", "d", "e", "f", "g", "h", "i", "j", "k", "l",
                    "m", "n", "o", "p", "q", "r", "s", "t", "u", "v", "w", "x",
                    "y", "z">>
    IN IF \E i \in 1..26 : upper[i] = c
       THEN lowers[CHOOSE i \in 1..26 : upper[i] = c]
       ELSE c

\* str.lower()
lower(s) == [i \in 1..Len(s) |-> LowerChar(s[i])]

\* str.startswith(p)
StartsWith(s, p) == Len(s) >= Len(p) /\ SubSeq(s, 1, Len(p)) = p

\* s[n:]
From(s, n) == IF Len(s) > n THEN SubSeq(s, n + 1, Len(s)) ELSE <<>>

Digits == <<"0", "1", "2", "3", "4", "5", "6", "7", "8", "9">>

RECURSIVE DigitsValue(_)
DigitsValue(s) ==
    IF s = <<>> THEN 0
    ELSE 10 * DigitsValue(SubSeq(s, 1, Len(s) - 1))
         + (CHOOSE i \in 1..10 : Digits[i] = s[Len(s)]) - 1

\* int(text) on a text of sign characters, digits and letters: an optional
\* sign followed by at least one digit, anything else is a ValueError
\* (ok = FALSE).
ParseNumber(text) ==
    LET signed == text # <<>> /\ text[1] \in {"-", "+"}
        body == IF signed THEN Tail(text) ELSE text
        ok == /\ body # <<>>
              /\ \A i \in 1..Len(body) : \E d \in 1..10 : Digits[d] = body[i]
    IN [ok |-> ok,
        value |-> IF ~ok THEN 0
                  ELSE IF signed /\ text[1] = "-" THEN 0 - DigitsValue(body)
                  ELSE DigitsValue(body)]

\* float(text) on a text of spaces, sign characters, digits, points and
\* letters (no exponent, no underscore): surrounding spaces are stripped,
\* then an optional sign, then inf, infinity or nan in any case, or digits
\* with at most one point and at least one digit; anything else is a
\* ValueError (kind "bad").  A number is digits / scale.
ParseFloat(text) ==
    LET Numeric(digits) ==
          /\ digits # <<>>
          /\ \A i \in DOMAIN digits : \E d \in 1..10 : Digits[d] = digits[i]
        \* the digits around the point, and the number of them after it
        Value(negative, body, digits, decimals) ==
          [kind |-> IF body \in {<<"i", "n", "f">>,
                                  <<"i", "n", "f", "i", "n", "i", "t", "y">>}
                    THEN "inf"
                    ELSE IF body = <<"n", "a", "n">> THEN "nan"
                    ELSE IF Numeric(digits) THEN "num" ELSE "bad",
           negative |-> negative,
           digits |-> IF Numeric(digits) THEN DigitsValue(digits) ELSE 0,
           scale |-> IF Numeric(digits) THEN 10 ^ decimals ELSE 1]
        \* point is the place of the first point, or one past the end
        AtPoint(negative, body, point) ==
          Value(negative, body,
                SubSeq(body, 1, point - 1) \o SubSeq(body, point + 1, Len(body)),
                IF point <= Len(body) THEN Len(body) - point ELSE 0)
        Unsigned(negative, body) ==
          AtPoint(negative, body,
                  IF \A i \in DOMAIN body : body[i] # "." THEN Len(body) + 1
                  ELSE CHOOSE i \in DOMAIN body :
                         /\ body[i] = "."
                         /\ \A k \in 1..(i - 1) : body[k] # ".")
        Stripped(s) ==
          Unsigned(s # <<>> /\ s[1] = "-",
                   lower(IF s # <<>> /\ s[1] \in {"-", "+"} THEN Tail(s) ELSE s))
    IN Stripped(SubSeq(text,
                       CHOOSE i \in 1..(Len(text) + 1) :
                         /\ \A k \in 1..(i - 1) : text[k] = " "
                         /\ i = Len(text) + 1 \/ text[i] # " ",
                       CHOOSE i \in 0..Len(text) :
                         /\ \A k \in (i + 1)..Len(text) : text[k] = " "
                         /\ i = 0 \/ text[i] # " "))

\* str(n) for n >= 0
RECURSIVE Decimal(_)
Decimal(n) ==
    IF n < 10 THEN <<Digits[n + 1]>>
    ELSE Append(Decimal(n \div 10), Digits[(n % 10) + 1])

\* ------------------------------------------------- utils/formatting.py
format_file_size_binary(size_in_bytes) ==
    LET mb == size_in_bytes >= 1048576
        \* 100 / 2^20 = 25 / 2^18 and 100 / 2^10 = 25 / 2^8
        hundredths == IF mb THEN (25 * size_in_bytes + 131072) \div 262144
                            ELSE (25 * size_in_bytes + 128) \div 256
    IN Decimal(hundredths \div 100)
       \o <<".", Digits[((hundredths % 100) \div 10) + 1],
            Digits[(hundredths % 10) + 1], " ">>
       \o (IF mb THEN <<"M", "B">> ELSE <<"K", "B">>)

\* format_file_size (lines 4-9): f"{size / unit:.2f} MB" or KB.  The two
\* decimals are the quotient rounded to the nearest hundredth; a quotient
\* exactly half-way between two hundredths is rounded by its binary
\* representation, which this arithmetic does not reproduce.
format_file_size(size_in_bytes) ==
    LET mb == size_in_bytes >= 1000000
        hundredth == IF mb THEN 10000 ELSE 10
        hundredths == (size_in_bytes + hundredth \div 2) \div hundredth
    IN Decimal(hundredths \div 100)
       \o <<".", Digits[((hundredths % 100) \div 10) + 1],
            Digits[(hundredths % 10) + 1], " ">>
       \o (IF mb THEN <<"M", "B">> ELSE <<"K", "B">>)

\* int(float('inf') * unit) raises OverflowError, which parse_size_string
\* does not catch: the call raises instead of returning
OverflowError == -2

\* parse_size_string (lines 16-36): None is NoSize.  int() truncates the
\* product towards zero; int(nan) is a ValueError, which is caught.
parse_size_string(size_str) ==
    LET \* value * factor, the quotient of two powers of ten times the digits
        Convert(value, factor) ==
          IF value.kind = "bad" \/ factor = 0 \/ value.kind = "nan"
          THEN NoSize
          ELSE IF value.kind = "inf" THEN OverflowError
          ELSE (IF value.negative THEN -1 ELSE 1)
               * (IF value.scale <= factor
                  THEN value.digits * (factor \div value.scale)
                  ELSE value.digits \div (value.scale \div factor))
        \* s[:-2] and s[-2:]
        Split(number, unit) ==
          Convert(ParseFloat(number),
                  IF unit = <<"m", "b">> THEN 1000000
                  ELSE IF unit = <<"k", "b">> THEN 1000 ELSE 0)
        Lowered(s) ==
          IF Len(s) > 2
          THEN Split(SubSeq(s, 1, Len(s) - 2), SubSeq(s, Len(s) - 1, Len(s)))
          ELSE Split(<<>>, s)
    IN IF size_str = <<>> THEN NoSize ELSE Lowered(lower(size_str))

\* ------------------------------------------------------ utils/config.py
get_file_size_limit(u) == DISCORD_UPLOAD_LIMITS[accountType[u]]

DEFAULT_PREFERENCES ==
    [max_attempts |-> 50,
     default_media_type |-> NoMedia,
     min_size_bytes |-> NoSize,
     max_size_bytes |-> DISCORD_UPLOAD_LIMITS["basic"],
     progress_update_interval |-> 5,
     message_delete_delay |-> 10,
     account_type |-> "basic"]

NoFile == [kind |-> "absent", prefs |-> <<>>]
\* what json.dump(self.user_preferences) leaves in the file
JsonFile(up) == [kind |-> "json", prefs |-> up]

\* the record of a user who set account type t and max_attempts n
StoredPrefs(t, n) ==
    [DEFAULT_PREFERENCES EXCEPT !.account_type = t,
                                !.max_size_bytes = DISCORD_UPLOAD_LIMITS[t],
                                !.max_attempts = n]

\* accountType and maxAttempts are the two fields of user_preferences the
\* discovery job reads, as get_user_preferences would return them
AccountTypeView(up) ==
    [u \in Users |-> IF u \in DOMAIN up THEN up[u].account_type
                                        ELSE DEFAULT_PREFERENCES.account_type]
MaxAttemptsView(up) ==
    [u \in Users |-> IF u \in DOMAIN up THEN up[u].max_attempts
                                        ELSE DEFAULT_PREFERENCES.max_attempts]

\* get_user_preferences: the dict after the call
get_user_preferences(up, u) ==
    IF u \in DOMAIN up THEN up ELSE up @@ (u :> DEFAULT_PREFERENCES)

\* update_user_preference: the dict after the call
update_user_preference(up, u, key, value) ==
    LET base == get_user_preferences(up, u)
    IN IF key = "account_type" /\ value \in DOMAIN DISCORD_UPLOAD_LIMITS
       THEN [base EXCEPT ![u] =
               [@ EXCEPT !.max_size_bytes = DISCORD_UPLOAD_LIMITS[value],
                         !.account_type = value]]
       ELSE [base EXCEPT ![u] = [@ EXCEPT ![key] = value]]

BackfillOverwriting(rec) ==
    [key \in DOMAIN rec \cup DOMAIN DEFAULT_PREFERENCES |->
       IF key \in DOMAIN DEFAULT_PREFERENCES THEN DEFAULT_PREFERENCES[key]
                                             ELSE rec[key]]

\* load_preferences, lines 54-57: then add the default keys that are missing
Backfill(rec) ==
    [key \in DOMAIN rec \cup DOMAIN DEFAULT_PREFERENCES |->
       IF key \in DOMAIN rec THEN rec[key] ELSE DEFAULT_PREFERENCES[key]]

\* load_preferences (lines 37-67): the dict after the call; lines 50-51
\* copy every key of the file's record over the record in memory
load_preferences(file, up) ==
    IF file.kind # "json" THEN <<>>
    ELSE [u \in DOMAIN up \cup DOMAIN file.prefs |->
            IF u \in DOMAIN file.prefs
            THEN LET base == IF u \in DOMAIN up THEN up[u] ELSE <<>>
                     prefs == file.prefs[u]
                 IN Backfill([key \in DOMAIN base \cup DOMAIN prefs |->
                                IF key \in DOMAIN prefs THEN prefs[key]
                                                        ELSE base[key]])
            ELSE up[u]]

\* reset_user_preferences: the dict after the call
reset_user_preferences(up, u) ==
    IF u \in DOMAIN up THEN [up EXCEPT ![u] = DEFAULT_PREFERENCES]
                        ELSE up @@ (u :> DEFAULT_PREFERENCES)

\* -------------------------------------------- cogs/random_commands.py
check_file_size_always_ok(size_bytes, u) == TRUE

\* check_file_size: can_upload
check_file_size(size_bytes, u) == ~(size_bytes > get_file_size_limit(u))

MinExceedsLimitNitroOnly(min_size, account_max_size) ==
    Truthy(min_size) /\ min_size > DISCORD_UPLOAD_LIMITS["nitro"]

\* line 231: if min_size and min_size > account_max_size
MinExceedsLimit(min_size, account_max_size) ==
    Truthy(min_size) /\ min_size > account_max_size

ClampMaxToBasic(max_size, account_max_size) ==
    IF Truthy(max_size) /\ max_size > account_max_size
    THEN DISCORD_UPLOAD_LIMITS["basic"] ELSE max_size

\* lines 242-243: if max_size and max_size > account_max_size: max_size = ...
ClampMax(max_size, account_max_size) ==
    IF Truthy(max_size) /\ max_size > account_max_size
    THEN account_max_size ELSE max_size

\* lines 307-312: the three filter tests of the search loop
PassesFilter(a, media_type, min_size, max_size) ==
    /\ ~(media_type # NoMedia /\ AssetType(a) # media_type)
    /\ ~(Truthy(min_size) /\ AssetSize(a) < min_size)
    /\ ~(Truthy(max_size) /\ AssetSize(a) > max_size)

LoopContinuesInclusive(attempts, max_attempts, collected, count) ==
    attempts <= max_attempts /\ collected < count

\* line 257: while attempts < max_attempts and len(valid_assets) < count
LoopContinues(attempts, max_attempts, collected, count) ==
    attempts < max_attempts /\ collected < count

LoopBudgetLive(r, u) == maxAttempts[u]

\* the bound lines 257 and 297 compare attempts against: the local
\* max_attempts assigned at line 251, not the preference itself
LoopBudget(r, u) == r.max_attempts

AttemptsAfterFailedBatchNoFloor(attempts, n) == attempts + n

\* line 268: attempts += max(1, len(assets))
AttemptsAfterFailedBatch(attempts, n) == attempts + (IF n > 1 THEN n ELSE 1)

\* str(e) of the exception being reported.  The report is an edit of the
\* command message, so it is only seen when that message still exists: the
\* exception is then a failure of the service, not a missing message.
ExcStrings == {"503 Service Unavailable (error code: 0)"}
\* phrase in error.lower()
Mentions(error, phrase) ==
    phrase = "not found" /\ error = "404 Not Found (error code: 10008)"

\* format_error_message (lines 156-172): the text is the raw error string,
\* a hint chosen by the phrases it mentions, and the command
format_error_message(error, command_str) ==
    [error |-> error,
     hint |-> IF Mentions(error, "rate limit") THEN "wait and try again"
              ELSE IF Mentions(error, "not found") THEN "asset not found"
              ELSE IF Mentions(error, "permission") THEN "no permission"
              ELSE IF Mentions(error, "size") THEN "exceeds upload limit"
              ELSE "unexpected error",
     command |-> command_str]

\* ------------------------------------ parse_random_args (lines 34-56)
MinPrefix == <<"m", "i", "n", ":">>
MaxPrefix == <<"m", "a", "x", ":">>
CountPrefix == <<"c", "o", "u", "n", "t", ":">>
ImageWord == <<"i", "m", "a", "g", "e">>
VideoWord == <<"v", "i", "d", "e", "o">>

CountOutOfRangeAboveOnly(count) == count > 10

\* line 50: if count < 1 or count > 10
CountOutOfRange(count) == count < 1 \/ count > 10

\* lines 48-53: the value a count: argument leaves in count
ParseCount(text) ==
    LET n == ParseNumber(text)
    IN IF ~n.ok THEN 1
       ELSE IF CountOutOfRange(n.value) THEN 1
       ELSE n.value

\* lines 41-53: one pass of the for loop
ParseArg(word, acc) ==
    LET arg == lower(word)
    IN IF StartsWith(arg, MinPrefix)
       THEN [acc EXCEPT !.min_size = parse_size_string(From(arg, 4))]
       ELSE IF StartsWith(arg, MaxPrefix)
       THEN [acc EXCEPT !.max_size = parse_size_string(From(arg, 4))]
       ELSE IF arg \in {ImageWord, VideoWord}
       THEN [acc EXCEPT !.media_type = IF arg = ImageWord THEN "image" ELSE "video"]
       ELSE IF StartsWith(arg, CountPrefix)
       THEN [acc EXCEPT !.count = ParseCount(From(arg, 6))]
       ELSE acc

RECURSIVE ParseArgsFrom(_, _)
ParseArgsFrom(args, acc) ==
    IF args = <<>> THEN acc
    \* an exception of parse_size_string ends the call
    ELSE IF OverflowError \in {acc.min_size, acc.max_size} THEN acc
    ELSE ParseArgsFrom(Tail(args), ParseArg(Head(args), acc))

parse_random_args(args) ==
    ParseArgsFrom(args, [min_size |-> NoSize, max_size |-> NoSize,
                         media_type |-> NoMedia, count |-> 1])

\* The time of a step is left open where the clock is NoClock: every reading
\* of it may then find the update interval elapsed or not.
NoClock == -1
\* The cache is left open where it is NoCache: get_asset_info may then return
\* metadata or nothing for any candidate, whichever way it came by it.
NoCache == [kept |-> FALSE, ids |-> {}]
\* No invocation of the `random` command of AssetCommands has been made.
NoDirect == [u \in Users |-> [pc |-> "idle", asset |-> NoAsset, deleted |-> FALSE]]
\* Startup is left out where it is NoStartup: every handler a specification
\* dispatches is then taken to be registered.
NoStartup == [next |-> 0, commands |-> {}, loaded |-> {}]

\* ------------------------------------------------------------- initial state
\* AssetCommands.__init__ (line 32): nothing fetched yet
InitCog ==
    /\ last_fetched_asset = [u \in Users |-> NoAsset]
    /\ cogOp = NoCogOp
    /\ sizeOp = NoSizeOp
    /\ clock = NoClock
    /\ asset_cache = NoCache
    /\ direct = NoDirect
    /\ startup = NoStartup

\* every user has a stored record holding the account type and the
\* max_attempts the discovery job reads; nothing else was ever set
InitPrefs ==
    /\ user_preferences =
         [u \in Users |-> StoredPrefs(accountType[u], maxAttempts[u])]
    /\ prefsFile = JsonFile(user_preferences)
    /\ prefOp = NoPrefOp

NoRequest(u) == [user |-> u, count |-> 1, min_size |-> NoSize,
                 max_size |-> NoSize, media_type |-> NoMedia]

NewJob(p) ==
    [pc |-> p, account_max_size |-> 0, max_size |-> NoSize, max_attempts |-> 0,
     valid_assets |-> <<>>, attempts |-> 0, assets |-> <<>>, error |-> FALSE,
     info |-> "none", idx |-> 0, send_idx |-> 0,
     outcome |-> "none", started |-> FALSE, ended |-> FALSE, raised |-> FALSE,
     escaped |-> FALSE, cancelSeen |-> FALSE, cancelMid |-> FALSE,
     cancelHit |-> FALSE,
     last_update_time |-> 0, current_time |-> 0,
     reportAt |-> NoClock, gap |-> NoClock,
     asset_infos |-> <<>>, fetched |-> {}, reused |-> FALSE,
     skipped |-> FALSE,
     sent |-> <<>>, recorded |-> <<>>, iters |-> 0, gw |-> "none",
     twin |-> <<>>, shown |-> [error |-> "", hint |-> "", command |-> NoJob]]

\* The requests carry one media filter: the type test is the same comparison
\* for either word, and both asset types are among the candidates.
Init ==
    /\ \E r \in [user : {1}, count : 1..MaxCount,
                 min_size : {NoSize, 2000000, 30000000, 600000000},
                 max_size : {NoSize, 0, 2000000, 60000000},
                 media_type : {NoMedia, "image"}] :
         req = [j \in Jobs |-> r]
    /\ job = [j \in Jobs |-> NewJob(IF j = 1 THEN "idle" ELSE "off")]
    /\ activeJobs = [u \in Users |-> NoJobState]
    /\ lastAsset = [u \in Users |-> NoAssetState]
    /\ \E t \in Tiers : accountType = [u \in Users |-> t]
    /\ \E n \in 1..MaxAttemptsBound : maxAttempts = [u \in Users |-> n]
    /\ msgDeleted = {}
    /\ cancelCmd = [u \in Users |-> NoCancelCmd]
    /\ regOp = NoRegOp
    /\ cmd = [j \in Jobs |-> NoCmd]
    /\ InitCog
    /\ InitPrefs

\* ---------------------------------------------------------------- helpers
\* The batch locals (assets, error, asset_infos, the for-loop position) are
\* dead once the for loop is left: they are reassigned before the next read.
DropBatch(r) ==
    [r EXCEPT !.assets = <<>>, !.error = FALSE, !.info = "none", !.idx = 0,
              !.asset_infos = <<>>]

\* lines 262-263, 288-289: current_time - last_update_time >= 5
ShouldUpdate(r) ==
    IF clock = NoClock THEN BOOLEAN
    ELSE {r.current_time - r.last_update_time >= 5}

\* an edit showing search progress has reached the channel: the time of it,
\* and the shortest time between two such edits in a row
Reported(r) ==
    IF clock = NoClock THEN r
    ELSE [r EXCEPT !.reportAt = clock,
                   !.gap = IF r.reportAt = NoClock THEN @
                           ELSE IF @ = NoClock THEN clock - r.reportAt
                           ELSE Min(@, clock - r.reportAt)]

\* fetch_random_assets: (None, err) or (list, None)
Responses(batch_size) ==
    {[err |-> TRUE, batch |-> <<>>]} \cup
    {[err |-> FALSE, batch |-> s] :
        s \in UNION {[1..k -> Assets] : k \in 0..batch_size}}

\* ctx.message.edit / delete on a message that is gone raises NotFound;
\* on a live message it may still fail (HTTPException).
EditOk(j) == IF j \in msgDeleted THEN {FALSE} ELSE BOOLEAN

FinallyOnlyWhenReported(r, out, esc) ==
    [DropBatch(r) EXCEPT !.pc = "done", !.outcome = out, !.escaped = esc, !.ended = ~esc]

\* lines 362-363: finally: state_manager.end_job(user_id)
Finally(r, out, esc) ==
    [DropBatch(r) EXCEPT !.pc = "done", !.outcome = out, !.escaped = esc, !.ended = TRUE]

\* an exception reaches `except Exception` (line 358); the handler then
\* awaits the edit that reports it
Raise(r) == [DropBatch(r) EXCEPT !.pc = "handler", !.raised = TRUE]

Commit(j, r2) ==
    /\ job' = [job EXCEPT ![j] = r2]
    /\ activeJobs' = IF r2.ended /\ ~job[j].ended
                     THEN end_job(activeJobs, req[j].user)
                     ELSE activeJobs

\* ------------------------------------------- process_random_assets: INIT
Begin(j) ==
    /\ job[j].pc = "idle"
    /\ CanRun(j)
    /\ LET u == req[j].user
           lim == get_file_size_limit(u)
           r == job[j]
       IN IF MinExceedsLimit(req[j].min_size, lim)
          THEN /\ job' = [job EXCEPT ![j] =
                            [r EXCEPT !.pc = "reject_edit", !.account_max_size = lim]]
               /\ UNCHANGED activeJobs
          ELSE /\ job' = [job EXCEPT ![j] =
                            [r EXCEPT !.pc = "start_edit",
                                      !.account_max_size = lim,
                                      !.max_size = ClampMax(req[j].max_size, lim),
                                      !.started = TRUE,
                                      !.valid_assets = <<>>,
                                      !.attempts = 0,
                                      !.max_attempts = maxAttempts[u]]]
               /\ activeJobs' = start_job(activeJobs, u, j)
    /\ UNCHANGED extra
    /\ UNCHANGED <<req, lastAsset, accountType, maxAttempts, msgDeleted, cancelCmd>>

RejectReport(j) ==
    /\ job[j].pc = "reject_edit"
    /\ CanRun(j)
    /\ \E ok \in EditOk(j) :
         job' = [job EXCEPT ![j] =
                   [@ EXCEPT !.pc = "done", !.outcome = "rejected",
                             !.escaped = ~ok]]
    /\ UNCHANGED extra
    /\ UNCHANGED <<req, activeJobs, lastAsset, accountType, maxAttempts,
                   msgDeleted, cancelCmd>>

StartReport(j) ==
    /\ job[j].pc = "start_edit"
    /\ CanRun(j)
    /\ \E ok \in EditOk(j) :
         Commit(j, IF ok THEN [job[j] EXCEPT !.pc = "loop"]
                         ELSE Raise(job[j]))
    /\ UNCHANGED extra
    /\ UNCHANGED <<req, lastAsset, accountType, maxAttempts, msgDeleted, cancelCmd>>

\* -------------------------------------- process_random_assets: SEARCHING
LoopExit(j) ==
    /\ job[j].pc = "loop"
    /\ LET r == job[j] IN
       /\ ~LoopContinues(r.attempts, LoopBudget(r, req[j].user),
                       Len(r.valid_assets), req[j].count)
       /\ Commit(j, IF r.valid_assets = <<>>
                    THEN [r EXCEPT !.pc = "noresult_edit"]
                    ELSE [r EXCEPT !.pc = "delete_msg"])
    /\ UNCHANGED extra
    /\ UNCHANGED <<req, lastAsset, accountType, maxAttempts, msgDeleted, cancelCmd>>

LoopCancel(j) ==
    /\ job[j].pc = "loop"
    /\ LET r == job[j] IN
       /\ LoopContinues(r.attempts, LoopBudget(r, req[j].user),
                       Len(r.valid_assets), req[j].count)
       /\ should_cancel(activeJobs, req[j].user)
       /\ Commit(j, [r EXCEPT !.pc = "cancel_edit", !.cancelSeen = TRUE])
    /\ UNCHANGED extra
    /\ UNCHANGED <<req, lastAsset, accountType, maxAttempts, msgDeleted, cancelCmd>>

LoopFetch(j) ==
    /\ job[j].pc = "loop"
    /\ LET r == job[j] IN
       /\ LoopContinues(r.attempts, LoopBudget(r, req[j].user),
                       Len(r.valid_assets), req[j].count)
       /\ ~should_cancel(activeJobs, req[j].user)
       /\ Commit(j, [DropBatch(r) EXCEPT
                        !.pc = "fetch", !.iters = @ + 1,
                        !.current_time = IF clock = NoClock THEN @ ELSE clock])
    /\ UNCHANGED extra
    /\ UNCHANGED <<req, lastAsset, accountType, maxAttempts, msgDeleted, cancelCmd>>

\* lines 267-276: what the loop does with the batch fetch_assets_batch
\* returned; should_update was computed at line 263, before the fetch
AfterBatch(j, r) ==
    IF r.error \/ r.assets = <<>>
    THEN \E should_update \in ShouldUpdate(r) :
           Commit(j, [DropBatch(r) EXCEPT
                        !.attempts = AttemptsAfterFailedBatch(@, Len(r.assets)),
                        !.pc = IF should_update THEN "retry_edit" ELSE "loop"])
    ELSE Commit(j, [r EXCEPT !.pc = "gather"])

\* one iteration of the while loop of fetch_assets_batch (lines 111-120)
GatewayCall(j) ==
    /\ job[j].pc = "fetch"
    /\ LET r == job[j]
           \* the count argument of fetch_assets_batch (line 266)
           count == Min(BatchCap, req[j].count - Len(r.valid_assets))
           batch_size == Min(10, count)
       IN \E resp \in Responses(batch_size) :
            LET shape == IF resp.err \/ resp.batch = <<>> THEN "empty"
                         ELSE IF Len(resp.batch) = 1 THEN "one" ELSE "mixed"
                r1 == [r EXCEPT !.gw = IF @ = "none" \/ @ = shape
                                       THEN shape ELSE "mixed"]
                ext == r1.assets \o resp.batch
            IN IF resp.err
               THEN AfterBatch(j, [r1 EXCEPT !.error = TRUE])
               ELSE IF resp.batch = <<>>
               THEN AfterBatch(j, r1)
               ELSE IF Len(ext) < count
               THEN Commit(j, [r1 EXCEPT !.assets = ext])
               ELSE AfterBatch(j, [r1 EXCEPT !.assets = SubSeq(ext, 1, count)])
    /\ UNCHANGED extra
    /\ UNCHANGED <<req, lastAsset, accountType, maxAttempts, msgDeleted, cancelCmd>>

RetryReport(j) ==
    /\ job[j].pc = "retry_edit"
    /\ CanRun(j)
    /\ \E ok \in EditOk(j) :
         Commit(j, IF ok THEN [Reported(job[j]) EXCEPT
                                 !.pc = "loop",
                                 !.last_update_time = job[j].current_time]
                         ELSE Raise(job[j]))
    /\ UNCHANGED extra
    /\ UNCHANGED <<req, lastAsset, accountType, maxAttempts, msgDeleted, cancelCmd>>

\* get_asset_info (lines 86-98) for candidate a, where out is what
\* fetch_asset_info answers if it is asked.  acc holds the results so far,
\* the cache, the candidates the gateway was asked about, and whether a
\* result came from the cache without the gateway having been asked.
get_asset_info(acc, a, out) ==
    IF a \in acc.cache.ids
    THEN [acc EXCEPT !.infos = Append(@, "ok"),
                     !.reused = @ \/ a \notin acc.fetched]
    ELSE [acc EXCEPT !.infos = Append(@, out),
                     !.fetched = @ \cup {a},
                     !.cache = IF out = "ok"
                               THEN [@ EXCEPT !.ids = @ \cup {a}] ELSE @]

\* the coroutines gather runs, in the order of the candidates: none of them
\* is suspended before its answer is back (the gateway call blocks)
RECURSIVE GatherInfos(_, _, _, _)
GatherInfos(assets, outs, i, acc) ==
    IF i > Len(assets) THEN acc
    ELSE GatherInfos(assets, outs, i + 1,
                     get_asset_info(acc, assets[i], outs[i]))

\* lines 277-280: asyncio.gather over get_asset_info.  The job is suspended
\* until all fetches are back.  Where the cache is left open, each result is
\* read once, by the for-loop pass of its own candidate, so its value is
\* drawn there (ForHead).
Gather(j) ==
    /\ job[j].pc = "gather"
    /\ CanRun(j)
    /\ LET r == job[j] IN
       IF asset_cache = NoCache
       THEN /\ Commit(j, [r EXCEPT !.pc = "for", !.idx = 1])
            /\ UNCHANGED asset_cache
       ELSE \E outs \in [1..Len(r.assets) -> {"ok", "none"}] :
              LET g == GatherInfos(r.assets, outs, 1,
                                   [infos |-> <<>>, cache |-> asset_cache,
                                    fetched |-> r.fetched, reused |-> r.reused])
              IN /\ Commit(j, [r EXCEPT !.pc = "for", !.idx = 1,
                                        !.asset_infos = g.infos,
                                        !.fetched = g.fetched,
                                        !.reused = g.reused])
                 /\ asset_cache' = g.cache
    /\ UNCHANGED <<regOp, cmd, cogVars, prefVars, sizeOp, clock,
                   direct, startup>>
    /\ UNCHANGED <<req, lastAsset, accountType, maxAttempts, msgDeleted, cancelCmd>>

\* `continue` / end of the for body
Continue(r) ==
    IF r.idx < Len(r.assets)
    THEN [r EXCEPT !.pc = "for", !.idx = @ + 1]
    ELSE [DropBatch(r) EXCEPT !.pc = "loop"]

\* `continue` because the candidate was not collected
Skip(r) == Continue([r EXCEPT !.skipped = TRUE])

\* lines 297-338 for candidate r.assets[r.idx]; r.attempts is already charged
\* and r.info is what get_asset_info returned for it
Body(j, r) ==
    LET a == r.assets[r.idx]
        u == req[j].user
        \* the maxBytes of the same request issued with maxBytes = the
        \* account limit
        twinMax == IF /\ Truthy(req[j].max_size)
                      /\ req[j].max_size > r.account_max_size
                   THEN r.account_max_size ELSE req[j].max_size
        twinOk == /\ r.info = "ok"
                  /\ PassesFilter(a, req[j].media_type, req[j].min_size, twinMax)
                  /\ check_file_size(AssetSize(a), u)
        withTwin(x, data) == [x EXCEPT !.twin = IF twinOk /\ data THEN Append(@, a) ELSE @]
    IN IF r.attempts > LoopBudget(r, u)
       THEN Commit(j, [DropBatch(r) EXCEPT !.pc = "loop"])
       ELSE IF r.info = "none"
       THEN Commit(j, Skip(r))
       ELSE IF ~PassesFilter(a, req[j].media_type, req[j].min_size, r.max_size)
       THEN Commit(j, withTwin(Skip(r), TRUE))
       ELSE IF ~check_file_size(AssetSize(a), u)
       THEN Commit(j, Skip(r))
       ELSE \E data \in BOOLEAN :
              Commit(j, IF ~data
                        THEN Skip(r)
                        ELSE withTwin([r EXCEPT !.valid_assets = Append(@, a),
                                                !.pc = "found_edit"], TRUE))

ForHead(j) ==
    /\ job[j].pc = "for"
    /\ \E info \in IF asset_cache = NoCache THEN {"ok", "none"}
                    ELSE {job[j].asset_infos[job[j].idx]} :
         LET r == [job[j] EXCEPT
                     !.attempts = @ + 1, !.info = info,
                     !.current_time = IF clock = NoClock THEN @ ELSE clock]
         IN \E upd \in ShouldUpdate(r) :
              IF upd THEN Commit(j, [r EXCEPT !.pc = "for_edit"])
                     ELSE Body(j, r)
    /\ UNCHANGED extra
    /\ UNCHANGED <<req, lastAsset, accountType, maxAttempts, msgDeleted, cancelCmd>>

ForEdit(j) ==
    /\ job[j].pc = "for_edit"
    /\ CanRun(j)
    /\ \E ok \in EditOk(j) :
         IF ok THEN Body(j, [Reported(job[j]) EXCEPT
                               !.last_update_time = job[j].current_time])
               ELSE Commit(j, Raise(job[j]))
    /\ UNCHANGED extra
    /\ UNCHANGED <<req, lastAsset, accountType, maxAttempts, msgDeleted, cancelCmd>>

FoundReport(j) ==
    /\ job[j].pc = "found_edit"
    /\ CanRun(j)
    /\ LET r == job[j] IN
       \E ok \in EditOk(j) :
         Commit(j, IF ~ok THEN Raise(r)
                   ELSE IF Len(r.valid_assets) >= req[j].count
                   THEN [DropBatch(Reported(r)) EXCEPT !.pc = "loop"]
                   ELSE Continue(Reported(r)))
    /\ UNCHANGED extra
    /\ UNCHANGED <<req, lastAsset, accountType, maxAttempts, msgDeleted, cancelCmd>>

\* ------------------------------------ process_random_assets: termination
NoResultReport(j) ==
    /\ job[j].pc = "noresult_edit"
    /\ CanRun(j)
    /\ \E ok \in EditOk(j) :
         Commit(j, IF ok THEN Finally(job[j], "exhausted", FALSE)
                         ELSE Raise(job[j]))
    /\ UNCHANGED extra
    /\ UNCHANGED <<req, lastAsset, accountType, maxAttempts, msgDeleted, cancelCmd>>

CancelReturnFallsThrough(r) ==
    [DropBatch(r) EXCEPT !.pc = IF r.valid_assets = <<>> THEN "noresult_edit"
                                                       ELSE "delete_msg"]

\* lines 259-260: the acknowledgment was shown; return (through finally)
CancelReturn(r) == Finally(r, "cancelled", FALSE)

CancelReport(j) ==
    /\ job[j].pc = "cancel_edit"
    /\ CanRun(j)
    /\ \E ok \in EditOk(j) :
         Commit(j, IF ok THEN CancelReturn(job[j]) ELSE Raise(job[j]))
    /\ UNCHANGED extra
    /\ UNCHANGED <<req, lastAsset, accountType, maxAttempts, msgDeleted, cancelCmd>>

\* line 352: await ctx.message.delete()
DeleteMsg(j) ==
    /\ job[j].pc = "delete_msg"
    /\ CanRun(j)
    /\ \E ok \in EditOk(j) :
         /\ Commit(j, IF ok THEN [job[j] EXCEPT !.pc = "send", !.send_idx = 1]
                            ELSE Raise(job[j]))
         /\ msgDeleted' = IF ok THEN msgDeleted \cup {j} ELSE msgDeleted
    /\ UNCHANGED extra
    /\ UNCHANGED <<req, lastAsset, accountType, maxAttempts, cancelCmd>>

NextToSendStopsAtFailure(r) ==
    IF /\ r.send_idx < Len(r.valid_assets)
       /\ \E k \in DOMAIN r.sent : r.sent[k] = r.send_idx
    THEN [r EXCEPT !.send_idx = @ + 1]
    ELSE Finally(r, "delivered", FALSE)

\* the position the delivery loop (line 353) visits after position i
NextToSend(r) ==
    IF r.send_idx < Len(r.valid_assets)
    THEN [r EXCEPT !.send_idx = @ + 1]
    ELSE Finally(r, "delivered", FALSE)

\* lines 353-356: one pass of the delivery loop; send_asset returns a
\* message ("ok"), returns None ("none") or lets an exception out ("raise")
Send(j) ==
    /\ job[j].pc = "send"
    /\ CanRun(j)
    /\ LET r == job[j]
           i == r.send_idx
           a == r.valid_assets[i]
           u == req[j].user
       IN \E o \in {"ok", "none", "raise"} :
            CASE o = "ok" ->
                   /\ Commit(j, NextToSend([r EXCEPT !.sent = Append(@, i),
                                                     !.recorded = Append(@, a)]))
                   /\ lastAsset' = set_last_asset(lastAsset, u, a, <<j, i>>)
              [] o = "none" ->
                   /\ Commit(j, NextToSend(r))
                   /\ UNCHANGED lastAsset
              [] OTHER ->
                   /\ Commit(j, Raise(r))
                   /\ UNCHANGED lastAsset
    /\ UNCHANGED extra
    /\ UNCHANGED <<req, accountType, maxAttempts, msgDeleted, cancelCmd>>

\* lines 358-363: report the error, then finally; when the report itself
\* raises, the exception leaves the invocation after finally has run.
\* str(e) is read here for the first time, so it is drawn here.
Handler(j) ==
    /\ job[j].pc = "handler"
    /\ CanRun(j)
    /\ \E ok \in EditOk(j), e \in ExcStrings :
         Commit(j, Finally([job[j] EXCEPT !.shown =
                              IF ok THEN format_error_message(e, j) ELSE @],
                           "failed", ~ok))
    /\ UNCHANGED extra
    /\ UNCHANGED <<req, lastAsset, accountType, maxAttempts, msgDeleted, cancelCmd>>

\* ------------------------------------------------ the `cancel` command
Searching(r) == r.started /\ ~r.ended /\
                r.pc \in {"start_edit", "loop", "fetch", "retry_edit", "gather",
                          "for", "for_edit", "found_edit"}

\* lines 372-376 (and 394-397 when no job was found)
CancelCommand(u) ==
    /\ cancelCmd[u].pc = "idle"
    /\ LoopFree
    /\ LET found == cancel_job_result(activeJobs, u) IN
       /\ cancelCmd' = [cancelCmd EXCEPT ![u] =
                          [pc |-> IF found THEN "wait" ELSE "idle",
                           search_msg |-> get_search_message(activeJobs, u),
                           ret |-> found]]
       /\ activeJobs' = cancel_job(activeJobs, u)
       \* history: the command found an entry while invocation j of this
       \* user was running (cancelHit), and searching with some but not
       \* all assets collected (cancelMid)
       /\ job' = [j \in Jobs |->
                    IF req[j].user = u /\ found
                       /\ job[j].started /\ ~job[j].ended
                    THEN [job[j] EXCEPT
                            !.cancelHit = TRUE,
                            !.cancelMid =
                               \/ @
                               \/ /\ Searching(job[j])
                                  /\ Len(job[j].valid_assets) >= 1
                                  /\ Len(job[j].valid_assets) < req[j].count]
                    ELSE job[j]]
    /\ UNCHANGED extra
    /\ UNCHANGED <<req, lastAsset, accountType, maxAttempts, msgDeleted>>

\* lines 379-392: after the sleep, delete the search message and acknowledge;
\* when the first edit raised, the handler's except skips the deletion
CancelCleanup(u) ==
    /\ cancelCmd[u].pc = "wait"
    /\ LoopFree
    /\ \E ok \in BOOLEAN :
         msgDeleted' = IF ok /\ cancelCmd[u].search_msg # NoJob
                       THEN msgDeleted \cup {cancelCmd[u].search_msg}
                       ELSE msgDeleted
    /\ cancelCmd' = [cancelCmd EXCEPT ![u] = NoCancelCmd]
    /\ UNCHANGED extra
    /\ UNCHANGED <<job, req, activeJobs, lastAsset, accountType, maxAttempts>>

Next ==
    \/ \E j \in Jobs : Begin(j)
    \/ \E j \in Jobs : RejectReport(j)
    \/ \E j \in Jobs : StartReport(j)
    \/ \E j \in Jobs : LoopExit(j)
    \/ \E j \in Jobs : LoopCancel(j)
    \/ \E j \in Jobs : LoopFetch(j)
    \/ \E j \in Jobs : GatewayCall(j)
    \/ \E j \in Jobs : RetryReport(j)
    \/ \E j \in Jobs : Gather(j)
    \/ \E j \in Jobs : ForHead(j)
    \/ \E j \in Jobs : ForEdit(j)
    \/ \E j \in Jobs : FoundReport(j)
    \/ \E j \in Jobs : NoResultReport(j)
    \/ \E j \in Jobs : CancelReport(j)
    \/ \E j \in Jobs : DeleteMsg(j)
    \/ \E j \in Jobs : Send(j)
    \/ \E j \in Jobs : Handler(j)
    \/ \E u \in Users : CancelCommand(u)
    \/ \E u \in Users : CancelCleanup(u)

Spec == Init /\ [][Next]_vars

\* ====================================================================
\* The StateManager job registry on its own: its five operations applied
\* in any order, by any user, with any message handle.  regOp keeps the
\* operation last applied, what it returned and the registry before it.
InitRegistry ==
    /\ req = [j \in Jobs |-> NoRequest(1)]
    /\ job = [j \in Jobs |-> NewJob("off")]
    /\ activeJobs = [u \in Users |-> NoJobState]
    /\ lastAsset = [u \in Users |-> NoAssetState]
    /\ accountType = [u \in Users |-> "basic"]
    /\ maxAttempts = [u \in Users |-> 1]
    /\ msgDeleted = {}
    /\ cancelCmd = [u \in Users |-> NoCancelCmd]
    /\ regOp = NoRegOp
    /\ cmd = [j \in Jobs |-> NoCmd]
    /\ InitCog
    /\ InitPrefs

RegistryStep(name, u, m, ret, after) ==
    /\ regOp' = [name |-> name, user |-> u, message |-> m, ret |-> ret,
                 before |-> activeJobs]
    /\ activeJobs' = after
    /\ UNCHANGED <<job, req, lastAsset, accountType, maxAttempts, msgDeleted,
                   cancelCmd, cmd, cogVars, prefVars, sizeOp, clock, asset_cache,
                   direct, startup>>

OpStartJob(u, m) ==
    RegistryStep("start_job", u, m, FALSE, start_job(activeJobs, u, m))

OpCancelJob(u) ==
    RegistryStep("cancel_job", u, NoJob, cancel_job_result(activeJobs, u),
                 cancel_job(activeJobs, u))

OpShouldCancel(u) ==
    RegistryStep("should_cancel", u, NoJob, should_cancel(activeJobs, u),
                 activeJobs)

OpGetSearchMessage(u) ==
    RegistryStep("get_search_message", u, get_search_message(activeJobs, u),
                 FALSE, activeJobs)

OpEndJob(u) ==
    RegistryStep("end_job", u, NoJob, FALSE, end_job(activeJobs, u))

NextRegistry ==
    \/ \E u \in Users, m \in Jobs : OpStartJob(u, m)
    \/ \E u \in Users : OpCancelJob(u)
    \/ \E u \in Users : OpShouldCancel(u)
    \/ \E u \in Users : OpGetSearchMessage(u)
    \/ \E u \in Users : OpEndJob(u)

SpecRegistry == InitRegistry /\ [][NextRegistry]_vars

\* ====================================================================
\* The `random` command (lines 402-410): parse_random_args on the words
\* of the command, then process_random_assets with what it returned.
Random(j) ==
    /\ job[j].pc = "cmd"
    /\ CanRun(j)
    /\ LET p == parse_random_args(cmd[j].args)
       IN IF OverflowError \in {p.min_size, p.max_size}
          \* the exception leaves the command: the job is never started
          THEN /\ job' = [job EXCEPT ![j].pc = "done", ![j].escaped = TRUE]
               /\ UNCHANGED req
          ELSE /\ job' = [job EXCEPT ![j].pc = "idle"]
               /\ req' = [req EXCEPT ![j] =
                            [user |-> req[j].user, count |-> p.count,
                             min_size |-> p.min_size, max_size |-> p.max_size,
                             media_type |-> p.media_type]]
    /\ UNCHANGED <<activeJobs, lastAsset, accountType, maxAttempts,
                   msgDeleted, cancelCmd, regOp, cmd, cogVars, prefVars,
                   sizeOp, clock, asset_cache,
                   direct, startup>>

InitCommand(lists) ==
    /\ \E a \in lists :
         cmd = [j \in Jobs |-> IF j = 1 THEN [issued |-> TRUE, args |-> a]
                                        ELSE NoCmd]
    /\ req = [j \in Jobs |-> NoRequest(1)]
    /\ job = [j \in Jobs |-> NewJob(IF j = 1 THEN "cmd" ELSE "off")]
    /\ activeJobs = [u \in Users |-> NoJobState]
    /\ lastAsset = [u \in Users |-> NoAssetState]
    /\ msgDeleted = {}
    /\ cancelCmd = [u \in Users |-> NoCancelCmd]
    /\ regOp = NoRegOp
    /\ InitCog

\* The parser on its own: the words a user may type.
InitParse ==
    /\ LET Words ==
             LET CountTexts == {<<"5">>, <<"1", "0">>, <<"1">>, <<"0", "5">>,
                                <<"1", "1">>, <<"0">>, <<"-", "1">>, <<"x">>,
                                <<"1", "x">>, <<>>}
                 SizeTexts == {<<"2", "m", "b">>, <<"3", "0", "M", "B">>,
                               <<"5", "0", "0", "k", "b">>, <<"m", "b">>,
                               <<"2", "g", "b">>, <<"x", "m", "b">>, <<"2">>, <<>>}
             IN {CountPrefix \o t : t \in CountTexts}
                \cup {MinPrefix \o t : t \in SizeTexts}
                \cup {MaxPrefix \o t : t \in SizeTexts}
                \cup {ImageWord, VideoWord, <<"I", "M", "A", "G", "E">>,
                      <<"a", "u", "d", "i", "o">>,
                      <<"C", "O", "U", "N", "T", ":", "7">>}
       IN InitCommand(UNION {[1..n -> Words] : n \in 0..MaxArgs})
    /\ accountType = [u \in Users |-> "basic"]
    /\ maxAttempts = [u \in Users |-> 1]
    /\ InitPrefs

NextParse == \E j \in Jobs : Random(j)

SpecParse == InitParse /\ [][NextParse]_vars

\* The command as a whole: the words are parsed, then the job runs.
InitRandom ==
    /\ InitCommand(
         { <<>>,
           << MinPrefix \o <<"x", "m", "b">> >>,
           << MaxPrefix \o <<"2">> >>,
           << MinPrefix \o <<"6", "0", "m", "b">> >>,
           << CountPrefix \o <<"2">> >> })
    /\ accountType = [u \in Users |-> "nitro_basic"]
    /\ maxAttempts = [u \in Users |-> 2]
    \* what the user stored with `prefs set` before the command
    /\ \E m \in {NoMedia, "image"}, n \in {NoSize, 2000000} :
         user_preferences =
           [u \in Users |->
              [StoredPrefs(accountType[u], maxAttempts[u])
                 EXCEPT !.default_media_type = m, !.min_size_bytes = n]]
    /\ prefsFile = JsonFile(user_preferences)
    /\ prefOp = NoPrefOp

NextRandom ==
    \/ \E j \in Jobs : Random(j)
    \/ Next

SpecRandom == InitRandom /\ [][NextRandom]_vars

\* ====================================================================
\* The asset commands (cogs/asset_commands.py) and the favorite commands
\* (cogs/favorite_commands.py), next to a discovery job.  Their handlers
\* start when no job is in the middle of a run.
CogStep(name, u, x, ok, last) ==
    /\ LoopFree
    /\ cogOp' = [name |-> name, user |-> u, asset |-> x, ok |-> ok]
    /\ last_fetched_asset' = last
    /\ UNCHANGED <<job, req, activeJobs, lastAsset, accountType, maxAttempts,
                   msgDeleted, cancelCmd, regOp, cmd, prefVars, sizeOp, clock, asset_cache,
                   direct, startup>>

\* fetch_and_send_asset (lines 91-133) as `get` calls it: False when the
\* asset is too large or anything raises, else the asset is sent and
\* recorded in the cog's own last_fetched_asset
Get(u, x) ==
    \E sent \in BOOLEAN :
      LET ok == sent /\ ~(AssetSize(x) > max_file_size_bytes)
      IN CogStep("get", u, x, ok,
                 IF ok THEN [last_fetched_asset EXCEPT ![u] = x]
                       ELSE last_fetched_asset)

\* delete, lines 245-258: the gateway call, the acknowledgment, then the
\* cog's own record is cleared; an exception on the way skips the rest
DeleteResolved(u, x) ==
    \E deleted \in BOOLEAN, acked \in BOOLEAN :
      CogStep("delete", u, x, deleted,
              IF deleted /\ acked /\ last_fetched_asset[u] = x
              THEN [last_fetched_asset EXCEPT ![u] = NoAsset]
              ELSE last_fetched_asset)

\* delete <id>
DeleteById(u, x) == DeleteResolved(u, x)

\* delete last, lines 239-243
DeleteLast(u) ==
    IF last_fetched_asset[u] = NoAsset
    THEN CogStep("delete", u, NoAsset, FALSE, last_fetched_asset)
    ELSE DeleteResolved(u, last_fetched_asset[u])

\* FavoriteCommands.favorite / unfavorite with 'last': the asset comes from
\* state_manager.get_last_asset
MarkLast(name, u) ==
    LET asset_state == get_last_asset(lastAsset, u)
    IN IF asset_state = NoAssetState
       THEN CogStep(name, u, NoAsset, FALSE, last_fetched_asset)
       ELSE \E success \in BOOLEAN :
              CogStep(name, u, asset_state.asset_id, success, last_fetched_asset)

FavoriteLast(u) == MarkLast("favorite", u)
UnfavoriteLast(u) == MarkLast("unfavorite", u)

InitAssets ==
    /\ req = [j \in Jobs |-> NoRequest(1)]
    /\ job = [j \in Jobs |-> NewJob(IF j = 1 THEN "idle" ELSE "off")]
    /\ activeJobs = [u \in Users |-> NoJobState]
    /\ lastAsset = [u \in Users |-> NoAssetState]
    /\ accountType = [u \in Users |-> "nitro_basic"]
    /\ maxAttempts = [u \in Users |-> 1]
    /\ msgDeleted = {}
    /\ cancelCmd = [u \in Users |-> NoCancelCmd]
    /\ regOp = NoRegOp
    /\ cmd = [j \in Jobs |-> NoCmd]
    /\ InitCog
    /\ InitPrefs

NextAssets ==
    \/ \E j \in Jobs : Begin(j)
    \/ \E j \in Jobs : StartReport(j)
    \/ \E j \in Jobs : LoopExit(j)
    \/ \E j \in Jobs : LoopFetch(j)
    \/ \E j \in Jobs : GatewayCall(j)
    \/ \E j \in Jobs : RetryReport(j)
    \/ \E j \in Jobs : Gather(j)
    \/ \E j \in Jobs : ForHead(j)
    \/ \E j \in Jobs : ForEdit(j)
    \/ \E j \in Jobs : FoundReport(j)
    \/ \E j \in Jobs : NoResultReport(j)
    \/ \E j \in Jobs : DeleteMsg(j)
    \/ \E j \in Jobs : Send(j)
    \/ \E j \in Jobs : Handler(j)
    \/ \E u \in Users, x \in Assets : Get(u, x)
    \/ \E u \in Users, x \in Assets : DeleteById(u, x)
    \/ \E u \in Users : DeleteLast(u)
    \/ \E u \in Users : FavoriteLast(u)
    \/ \E u \in Users : UnfavoriteLast(u)

SpecAssets == InitAssets /\ [][NextAssets]_vars

\* ====================================================================
\* The preference commands (cogs/preference_commands.py) on the Config
\* object (utils/config.py).
NoSetting == "none"

\* get_setting_name (lines 23-29) over VALID_SETTINGS (lines 14-21)
get_setting_name(alias) ==
    CASE alias \in {"media_type", "mt", "type"} -> "media_type"
      [] alias \in {"min_size", "mins", "min"} -> "min_size"
      [] alias \in {"max_size", "maxs", "max"} -> "max_size"
      [] alias \in {"max_attempts", "attempts", "retry"} -> "max_attempts"
      [] alias \in {"update_interval", "interval", "update"} -> "update_interval"
      [] alias \in {"account_type", "account", "tier"} -> "account_type"
      [] OTHER -> NoSetting

\* one preference command handled: the dict it leaves, whether the dict
\* was saved, and whether the user was told "Updated ..."
PrefStep(name, u, setting, value, acked, saved, up) ==
    /\ LoopFree
    /\ user_preferences' = up
    /\ prefsFile' = IF saved THEN JsonFile(up) ELSE prefsFile
    /\ accountType' = AccountTypeView(up)
    /\ maxAttempts' = MaxAttemptsView(up)
    /\ prefOp' = [name |-> name, user |-> u, setting |-> setting,
                  value |-> value, acked |-> acked, file |-> NoFile]
    /\ UNCHANGED <<job, req, activeJobs, lastAsset, msgDeleted, cancelCmd,
                   regOp, cmd, cogVars, sizeOp, clock, asset_cache,
                   direct, startup>>

\* the update was made; the acknowledgment is a Discord call that may fail
Updated(u, setting, value, key, stored) ==
    \E delivered \in BOOLEAN :
      PrefStep("set", u, setting, value, delivered, TRUE,
               update_user_preference(user_preferences, u, key, stored))

\* prefs set <alias> <value> (lines 81-160)
PrefsSet(u, alias, value) ==
    LET setting == get_setting_name(alias)
        v == lower(value)
        all == <<"a", "l", "l">>
        basic == <<"b", "a", "s", "i", "c">>
        nitro_basic == <<"n", "i", "t", "r", "o", "_", "b", "a", "s", "i", "c">>
        nitro == <<"n", "i", "t", "r", "o">>
        size_bytes == parse_size_string(value)
        number == ParseNumber(value)
        created == get_user_preferences(user_preferences, u)
        rejected == PrefStep("set", u, setting, value, FALSE, FALSE,
                             user_preferences)
    IN CASE setting = NoSetting -> rejected
         [] setting = "account_type" ->
              IF v \notin {basic, nitro_basic, nitro}
              THEN rejected
              ELSE Updated(u, setting, value, "account_type",
                           IF v = basic THEN "basic"
                           ELSE IF v = nitro_basic THEN "nitro_basic"
                           ELSE "nitro")
         [] setting = "media_type" ->
              IF v \notin {ImageWord, VideoWord, all}
              THEN rejected
              ELSE Updated(u, setting, value, "default_media_type",
                           IF v = all THEN NoMedia
                           ELSE IF v = ImageWord THEN "image" ELSE "video")
         [] setting = "min_size" ->
              \* None, or the exception reported by `except Exception`
              IF size_bytes \in {NoSize, OverflowError}
              THEN rejected
              ELSE IF size_bytes > DISCORD_UPLOAD_LIMITS[created[u].account_type]
              THEN PrefStep("set", u, setting, value, FALSE,
                            created # user_preferences, created)
              ELSE Updated(u, setting, value, "min_size_bytes", size_bytes)
         [] setting = "max_attempts" ->
              IF ~number.ok \/ number.value < 1
              THEN rejected
              ELSE Updated(u, setting, value, "max_attempts", number.value)
         [] setting = "update_interval" ->
              IF ~number.ok \/ number.value < 1
              THEN rejected
              ELSE Updated(u, setting, value, "progress_update_interval",
                           number.value)
         [] OTHER ->
              \* max_size: no branch of the if chain stores anything
              \E delivered \in BOOLEAN :
                PrefStep("set", u, setting, value, delivered, FALSE,
                         user_preferences)

\* prefs reset (lines 162-172)
PrefsReset(u) ==
    \E delivered \in BOOLEAN :
      PrefStep("reset", u, NoSetting, <<>>, delivered, TRUE,
               reset_user_preferences(user_preferences, u))

\* a fresh Config: no preferences file, no stored record
InitPreferences ==
    /\ req = [j \in Jobs |-> NoRequest(1)]
    /\ job = [j \in Jobs |-> NewJob("off")]
    /\ activeJobs = [u \in Users |-> NoJobState]
    /\ lastAsset = [u \in Users |-> NoAssetState]
    /\ msgDeleted = {}
    /\ cancelCmd = [u \in Users |-> NoCancelCmd]
    /\ regOp = NoRegOp
    /\ cmd = [j \in Jobs |-> NoCmd]
    /\ InitCog
    /\ user_preferences = <<>>
    /\ prefsFile = NoFile
    /\ prefOp = NoPrefOp
    /\ accountType = AccountTypeView(user_preferences)
    /\ maxAttempts = MaxAttemptsView(user_preferences)

\* the commands of one user
NextPreferences ==
    \/ \E a \in {"media_type", "mt", "type", "min_size", "mins", "min",
               "max_size", "maxs", "max", "max_attempts", "attempts",
               "retry", "update_interval", "interval", "update",
               "account_type", "account", "tier", "size"},
         t \in {ImageWord, <<"A", "L", "L">>, <<"N", "i", "t", "r", "o">>,
               <<"b", "a", "s", "i", "c">>,
               <<"2", "m", "b">>, <<"3", "0", "m", "b">>, <<"2">>, <<"x">>} :
         PrefsSet(1, a, t)
    \/ PrefsReset(1)

SpecPreferences == InitPreferences /\ [][NextPreferences]_vars

\* ====================================================================
\* Start of the process: Config.__init__ reads data/preferences.json,
\* which an earlier version of the bot, or a hand, may have written.
\* the files: none, not JSON, or records holding any subset of the keys
\* (theme is a key the defaults do not know) for one or two users
InitLoad ==
    /\ req = [j \in Jobs |-> NoRequest(1)]
    /\ job = [j \in Jobs |-> NewJob("off")]
    /\ activeJobs = [u \in Users |-> NoJobState]
    /\ lastAsset = [u \in Users |-> NoAssetState]
    /\ msgDeleted = {}
    /\ cancelCmd = [u \in Users |-> NoCancelCmd]
    /\ regOp = NoRegOp
    /\ cmd = [j \in Jobs |-> NoCmd]
    /\ InitCog
    /\ user_preferences = <<>>
    /\ prefsFile \in
         LET FileValue ==
               [max_attempts |-> 2, default_media_type |-> "image",
                min_size_bytes |-> 2000000, max_size_bytes |-> 50000000,
                progress_update_interval |-> 2, message_delete_delay |-> 3,
                account_type |-> "nitro", theme |-> "dark"]
             PartialRecords ==
               {[key \in keys |-> FileValue[key]] : keys \in SUBSET DOMAIN FileValue}
         IN {NoFile, [kind |-> "corrupt", prefs |-> <<>>], JsonFile(<<>>)}
            \cup {JsonFile(1 :> r) : r \in PartialRecords}
            \cup {JsonFile((1 :> r) @@ (2 :> DEFAULT_PREFERENCES)) :
                    r \in PartialRecords}
    /\ prefOp = [NoPrefOp EXCEPT !.name = "boot"]
    /\ accountType = AccountTypeView(user_preferences)
    /\ maxAttempts = MaxAttemptsView(user_preferences)

\* Config.__init__ (lines 32-35) calling load_preferences; the file is
\* rewritten when the loaded dict differs from what was read
LoadPreferences ==
    /\ prefOp.name = "boot"
    /\ LET up == load_preferences(prefsFile, user_preferences)
       IN /\ user_preferences' = up
          /\ prefsFile' = IF prefsFile.kind = "json" /\ up # prefsFile.prefs
                          THEN JsonFile(up) ELSE prefsFile
          /\ accountType' = AccountTypeView(up)
          /\ maxAttempts' = MaxAttemptsView(up)
    /\ prefOp' = [NoPrefOp EXCEPT !.name = "load", !.file = prefsFile]
    /\ UNCHANGED <<job, req, activeJobs, lastAsset, msgDeleted, cancelCmd,
                   regOp, cmd, cogVars, sizeOp, clock, asset_cache,
                   direct, startup>>

NextLoad == LoadPreferences

SpecLoad == InitLoad /\ [][NextLoad]_vars

\* ====================================================================
\* Two invocations of process_random_assets whose lifetimes overlap: the
\* second `random` command comes from the same user or from another one.
\* Each asks for one asset and has a budget of one attempt; the second may
\* ask for a minimum size above the basic tier's limit.
InitOverlap ==
    /\ \E u \in {1, 2}, m \in {NoSize, 30000000} :
         req = [j \in Jobs |->
                  IF j = 1 THEN NoRequest(1)
                  ELSE [NoRequest(u) EXCEPT !.min_size = m]]
    /\ job = [j \in Jobs |-> NewJob("idle")]
    /\ activeJobs = [u \in Users |-> NoJobState]
    /\ lastAsset = [u \in Users |-> NoAssetState]
    /\ accountType = [u \in Users |-> "basic"]
    /\ maxAttempts = [u \in Users |-> 1]
    /\ msgDeleted = {}
    /\ cancelCmd = [u \in Users |-> NoCancelCmd]
    /\ regOp = NoRegOp
    /\ cmd = [j \in Jobs |-> NoCmd]
    /\ InitCog
    /\ InitPrefs

SpecOverlap == InitOverlap /\ [][Next]_vars

\* ====================================================================
\* A discovery job during which its user changes preferences: once the job
\* has started, `prefs set max_attempts`, `prefs set account_type` and
\* `prefs reset` may be handled whenever the job is suspended.
InitLive ==
    /\ \E m \in {NoSize, 30000000} :
         req = [j \in Jobs |-> [NoRequest(1) EXCEPT !.count = 2, !.min_size = m]]
    /\ job = [j \in Jobs |-> NewJob(IF j = 1 THEN "idle" ELSE "off")]
    /\ activeJobs = [u \in Users |-> NoJobState]
    /\ lastAsset = [u \in Users |-> NoAssetState]
    /\ accountType = [u \in Users |-> "basic"]
    /\ maxAttempts = [u \in Users |-> 2]
    /\ msgDeleted = {}
    /\ cancelCmd = [u \in Users |-> NoCancelCmd]
    /\ regOp = NoRegOp
    /\ cmd = [j \in Jobs |-> NoCmd]
    /\ InitCog
    /\ InitPrefs

NextLive ==
    \/ Next
    \/ /\ job[1].started /\ ~job[1].ended
       /\ \/ PrefsSet(1, "max_attempts", <<"1">>)
          \/ PrefsSet(1, "account_type", <<"N", "i", "t", "r", "o">>)
          \/ PrefsReset(1)

SpecLive == InitLive /\ [][NextLive]_vars

\* ====================================================================
\* Startup (main.py, on_ready) and the `random` command that is dispatched
\* after it.
\* The commands each extension's cog defines, in the order on_ready loads
\* the extensions: asset_commands.py lines 150-297, random_commands.py lines
\* 365 and 402, favorite_commands.py lines 14 and 40, preference_commands.py
\* lines 40 and 174, help_commands.py line 49.
CogCommands ==
    << [ext |-> "asset_commands",
        names |-> {"random", "get", "favorite", "delete", "stats", "help"}],
       [ext |-> "random_commands", names |-> {"cancel", "random"}],
       [ext |-> "favorite_commands", names |-> {"favorite", "unfavorite"}],
       [ext |-> "preference_commands", names |-> {"prefs", "helppref"}],
       [ext |-> "help_commands", names |-> {"help"}] >>

\* One turn of the loop of on_ready, lines 42-47: load_extension runs the
\* extension's setup, which adds its cog to the bot.  Adding a cog registers
\* each of its commands; a name the bot already holds makes the registration
\* raise, the cog's commands registered so far are taken back, and the
\* exception is printed by on_ready, which goes on to the next extension.
LoadExtension ==
    /\ startup.next \in 1..Len(CogCommands)
    /\ LET e == CogCommands[startup.next]
           clash == \E n \in e.names, c \in startup.commands : c[1] = n
       IN startup' =
            [next |-> startup.next + 1,
             commands |-> IF clash THEN startup.commands
                          ELSE startup.commands \cup {<<n, e.ext>> : n \in e.names},
             loaded |-> IF clash THEN startup.loaded
                        ELSE startup.loaded \cup {e.ext}]
    /\ UNCHANGED <<job, req, activeJobs, lastAsset, accountType, maxAttempts,
                   msgDeleted, cancelCmd, regOp, cmd, cogVars, prefVars,
                   sizeOp, clock, asset_cache, direct>>

\* AssetCommands.random, lines 150-184, for one user.  The handler holds the
\* event loop from its start to its first suspension: the gateway request
\* and fetch_and_send_asset up to its ctx.send are blocking calls.
AssetRandom(u) ==
    LET d == direct[u]
        \* no job and no other invocation is in the middle of a run
        free == /\ LoopFree
                /\ \A v \in Users \ {u} : direct[v].pc \notin {"request", "fetch"}
        to(pc, a) == /\ direct' = [direct EXCEPT ![u] = [d EXCEPT !.pc = pc,
                                                                  !.asset = a]]
                     /\ UNCHANGED last_fetched_asset
    IN /\ free
       /\ \/ \* the command is dispatched to this handler
             /\ d.pc = "idle"
             /\ \/ startup = NoStartup
                \/ /\ startup.next > Len(CogCommands)
                   /\ <<"random", "asset_commands">> \in startup.commands
             /\ to("request", NoAsset)
          \/ \* lines 161-172: the gateway request and random.choice
             /\ d.pc = "request"
             /\ \/ \E a \in Assets : to("fetch", a)
                \/ to("handler", NoAsset)
          \/ \* line 174, fetch_and_send_asset lines 100-104 and 106-107: the
             \* metadata and the download; a failure or an asset over the
             \* limit returns False and the loop turns again
             /\ d.pc = "fetch"
             /\ \E fetched \in BOOLEAN :
                  IF fetched /\ ~(AssetSize(d.asset) > max_file_size_bytes)
                  THEN to("send", d.asset)
                  ELSE to("request", NoAsset)
          \/ \* fetch_and_send_asset lines 116-129, then lines 175-176
             /\ d.pc = "send"
             /\ \/ /\ direct' = [direct EXCEPT ![u] = [d EXCEPT !.pc = "delete_msg"]]
                   /\ last_fetched_asset' =
                        [last_fetched_asset EXCEPT ![u] = d.asset]
                \/ to("request", NoAsset)
          \/ \* lines 178-180: handle_error
             /\ d.pc = "handler"
             /\ to("delete_msg", NoAsset)
          \/ \* lines 181-182: delete_command_message
             /\ d.pc = "delete_msg"
             /\ \E gone \in BOOLEAN :
                  /\ direct' = [direct EXCEPT ![u] = [d EXCEPT !.pc = "done",
                                                               !.deleted = gone]]
                  /\ UNCHANGED last_fetched_asset
       /\ UNCHANGED <<job, req, activeJobs, lastAsset, accountType, maxAttempts,
                      msgDeleted, cancelCmd, regOp, cmd, cogOp, prefVars,
                      sizeOp, clock, asset_cache, startup>>

InitStartup ==
    /\ req = [j \in Jobs |-> NoRequest(1)]
    /\ job = [j \in Jobs |-> NewJob("off")]
    /\ activeJobs = [u \in Users |-> NoJobState]
    /\ lastAsset = [u \in Users |-> NoAssetState]
    /\ accountType = [u \in Users |-> "nitro_basic"]
    /\ maxAttempts = [u \in Users |-> 1]
    /\ msgDeleted = {}
    /\ cancelCmd = [u \in Users |-> NoCancelCmd]
    /\ regOp = NoRegOp
    /\ cmd = [j \in Jobs |-> NoCmd]
    /\ last_fetched_asset = [u \in Users |-> NoAsset]
    /\ cogOp = NoCogOp
    /\ sizeOp = NoSizeOp
    /\ clock = NoClock
    /\ asset_cache = NoCache
    /\ direct = NoDirect
    /\ startup = [next |-> 1, commands |-> {}, loaded |-> {}]
    /\ InitPrefs

NextStartup ==
    \/ LoadExtension
    \/ \E u \in Users : AssetRandom(u)

SpecStartup == InitStartup /\ [][NextStartup]_vars

\* The event loop runs whatever is ready to run.
SpecStartupFair ==
    /\ SpecStartup
    /\ WF_vars(LoadExtension)
    /\ \A u \in Users : WF_vars(AssetRandom(u))

\* ====================================================================
\* A request for more assets than one batch may hold, next to a request for
\* a single asset.
InitBatch ==
    /\ \E c \in {1, BatchCap + 1}, m \in {NoSize, 30000000} :
         req = [j \in Jobs |-> [NoRequest(1) EXCEPT !.count = c, !.min_size = m]]
    /\ job = [j \in Jobs |-> NewJob(IF j = 1 THEN "idle" ELSE "off")]
    /\ activeJobs = [u \in Users |-> NoJobState]
    /\ lastAsset = [u \in Users |-> NoAssetState]
    /\ accountType = [u \in Users |-> "basic"]
    /\ maxAttempts = [u \in Users |-> 2]
    /\ msgDeleted = {}
    /\ cancelCmd = [u \in Users |-> NoCancelCmd]
    /\ regOp = NoRegOp
    /\ cmd = [j \in Jobs |-> NoCmd]
    /\ InitCog
    /\ InitPrefs

SpecBatch == InitBatch /\ [][Next]_vars

\* ====================================================================
\* A discovery job under a clock: the event loop's time is 5 s when the
\* command arrives and is followed, by whole seconds, while the job is under
\* way, whatever the job is doing.
\* The user's progress_update_interval is the default one, 5 s.
InitClock ==
    /\ \E m \in {NoSize, 30000000} :
         req = [j \in Jobs |-> [NoRequest(1) EXCEPT !.min_size = m]]
    /\ job = [j \in Jobs |-> NewJob(IF j = 1 THEN "idle" ELSE "off")]
    /\ activeJobs = [u \in Users |-> NoJobState]
    /\ lastAsset = [u \in Users |-> NoAssetState]
    /\ accountType = [u \in Users |-> "basic"]
    /\ maxAttempts = [u \in Users |-> 2]
    /\ msgDeleted = {}
    /\ cancelCmd = [u \in Users |-> NoCancelCmd]
    /\ regOp = NoRegOp
    /\ cmd = [j \in Jobs |-> NoCmd]
    /\ last_fetched_asset = [u \in Users |-> NoAsset]
    /\ cogOp = NoCogOp
    /\ sizeOp = NoSizeOp
    /\ clock = 5
    /\ asset_cache = NoCache
    /\ direct = NoDirect
    /\ startup = NoStartup
    /\ InitPrefs

\* a second goes by
Tick ==
    /\ clock # NoClock
    /\ clock < 5 + MaxTicks
    /\ \E j \in Jobs : job[j].started /\ ~job[j].ended
    /\ clock' = clock + 1
    /\ UNCHANGED <<job, req, activeJobs, lastAsset, accountType, maxAttempts,
                   msgDeleted, cancelCmd, regOp, cmd, cogVars, prefVars,
                   sizeOp, asset_cache,
                   direct, startup>>

NextClock == Next \/ Tick

SpecClock == InitClock /\ [][NextClock]_vars

\* ====================================================================
\* Two invocations of process_random_assets and the cache of asset metadata
\* they share: RandomCommands.asset_cache, empty when the cog is built.
\* The invocations are of two users.
InitCache ==
    /\ \E m \in {NoSize, 30000000} :
         req = [j \in Jobs |->
                  IF j = 1 THEN NoRequest(1)
                  ELSE [NoRequest(2) EXCEPT !.min_size = m]]
    /\ job = [j \in Jobs |-> NewJob("idle")]
    /\ activeJobs = [u \in Users |-> NoJobState]
    /\ lastAsset = [u \in Users |-> NoAssetState]
    /\ accountType = [u \in Users |-> "basic"]
    /\ maxAttempts = [u \in Users |-> 1]
    /\ msgDeleted = {}
    /\ cancelCmd = [u \in Users |-> NoCancelCmd]
    /\ regOp = NoRegOp
    /\ cmd = [j \in Jobs |-> NoCmd]
    /\ last_fetched_asset = [u \in Users |-> NoAsset]
    /\ cogOp = NoCogOp
    /\ sizeOp = NoSizeOp
    /\ clock = NoClock
    /\ asset_cache = [kept |-> TRUE, ids |-> {}]
    /\ direct = NoDirect
    /\ startup = NoStartup
    /\ InitPrefs

\* _cleanup_cache (lines 100-103): cache_ttl seconds after an entry was
\* stored, the task that was scheduled with it removes the key
cleanup_cache(a) ==
    /\ asset_cache # NoCache
    /\ a \in asset_cache.ids
    /\ LoopFree
    /\ asset_cache' = [asset_cache EXCEPT !.ids = @ \ {a}]
    /\ UNCHANGED <<job, req, activeJobs, lastAsset, accountType, maxAttempts,
                   msgDeleted, cancelCmd, regOp, cmd, cogVars, prefVars,
                   sizeOp, clock,
                   direct, startup>>

NextCache == Next \/ \E a \in Assets : cleanup_cache(a)

SpecCache == InitCache /\ [][NextCache]_vars

\* ====================================================================
\* The size functions of utils/formatting.py on their own.  A size text is
\* parsed; a byte count is formatted and the text is parsed back.  class
\* says how the text was made: a whole magnitude n followed by a unit
\* ("whole"), a number written another way ("number"), or one of the ways
\* a text can fail to be a size.
InitSize ==
    /\ req = [j \in Jobs |-> NoRequest(1)]
    /\ job = [j \in Jobs |-> NewJob("off")]
    /\ activeJobs = [u \in Users |-> NoJobState]
    /\ lastAsset = [u \in Users |-> NoAssetState]
    /\ accountType = [u \in Users |-> "basic"]
    /\ maxAttempts = [u \in Users |-> 1]
    /\ msgDeleted = {}
    /\ cancelCmd = [u \in Users |-> NoCancelCmd]
    /\ regOp = NoRegOp
    /\ cmd = [j \in Jobs |-> NoCmd]
    /\ last_fetched_asset = [u \in Users |-> NoAsset]
    /\ cogOp = NoCogOp
    /\ clock = NoClock
    /\ asset_cache = NoCache
    /\ direct = NoDirect
    /\ startup = NoStartup
    /\ InitPrefs
    /\ LET text(class, t) == [NoSizeOp EXCEPT !.name = "text", !.class = class,
                                              !.text = t]
           units == {<<"m", "b">>, <<"M", "B">>, <<"M", "b">>, <<"m", "B">>,
                     <<"k", "b">>, <<"K", "B">>, <<"K", "b">>, <<"k", "B">>}
       IN sizeOp \in
            {[text("whole", Decimal(n) \o unit) EXCEPT !.n = n, !.unit = unit] :
               n \in 0..MaxMagnitude, unit \in units}
            \cup {text("number", t) :
                    t \in {<<"1", ".", "5", "m", "b">>, <<".", "5", "k", "b">>,
                           <<"+", "2", "k", "b">>, <<"-", "1", "k", "b">>,
                           <<"0", "0", "7", "k", "b">>,
                           <<" ", "2", " ", "m", "b">>}}
            \cup {text("empty", <<>>)}
            \cup {text("no unit", t) :
                    t \in {<<"5">>, <<"1", "2">>, <<"1", "2", "5">>,
                           <<"2", "m">>, <<"2", "b">>, <<"2", "m", "b", " ">>}}
            \cup {text("unknown unit", t) :
                    t \in {<<"2", "g", "b">>, <<"2", "t", "b">>,
                           <<"2", "m", "i", "b">>, <<"2", "b", "m">>}}
            \cup {text("not a number", t) :
                    t \in {<<"x", "m", "b">>, <<"m", "b">>, <<"k", "b">>,
                           <<"t", "w", "o", "m", "b">>, <<"1", "x", "k", "b">>,
                           <<"1", ".", "5", ".", "m", "b">>, <<".", "m", "b">>,
                           <<"-", "m", "b">>, <<"n", "a", "n", "m", "b">>,
                           <<"i", "n", "f", "m", "b">>,
                           <<"I", "n", "f", "i", "n", "i", "t", "y", "K", "B">>}}
            \cup {[NoSizeOp EXCEPT !.name = "bytes", !.n = n] :
                    n \in {999, 1000000, 2500000, 500000, 0, 1, 1004, 999994,
                           999999, 1234567, 25000000}}

\* format_file_size(n)
FormatSize ==
    /\ sizeOp.name = "bytes"
    /\ sizeOp' = [sizeOp EXCEPT !.name = "text", !.class = "formatted",
                                !.text = format_file_size(sizeOp.n)]
    /\ UNCHANGED <<job, req, activeJobs, lastAsset, accountType, maxAttempts,
                   msgDeleted, cancelCmd, regOp, cmd, cogVars, prefVars,
                   clock, asset_cache,
                   direct, startup>>

\* parse_size_string(text)
ParseSize ==
    /\ sizeOp.name = "text"
    /\ sizeOp' = [sizeOp EXCEPT !.name = "parsed",
                                !.value = parse_size_string(sizeOp.text)]
    /\ UNCHANGED <<job, req, activeJobs, lastAsset, accountType, maxAttempts,
                   msgDeleted, cancelCmd, regOp, cmd, cogVars, prefVars,
                   clock, asset_cache,
                   direct, startup>>

NextSize == FormatSize \/ ParseSize

SpecSize == InitSize /\ [][NextSize]_vars

\* =================================================================== claims
Running == {j \in Jobs : job[j].pc # "off"}
Limit(j) == get_file_size_limit(req[j].user)

\* C1: a job with targetCount >= 2 whose gateway yields one candidate per
\* getRandomAssets call, every candidate being collected, and for which
\* cancel_job(u) was invoked after the first candidate was collected and
\* before the collected count reached targetCount (and whose notification
\* sink never failed and whose attempt budget was not overrun), ends in the
\* CANCELLED outcome with zero assets sent and end_job called.
C1_CancelAfterFirstCollected ==
    \A j \in Running :
      ( /\ job[j].pc = "done"
        /\ req[j].count >= 2
        /\ job[j].gw = "one"
        /\ ~job[j].skipped
        /\ job[j].cancelMid
        /\ job[j].attempts <= job[j].max_attempts
        /\ ~job[j].raised )
      => ( /\ job[j].outcome = "cancelled"
           /\ job[j].sent = <<>>
           /\ job[j].ended )

\* C2: once start_job(u) has been called, end_job(u) has run by the time
\* the invocation has returned, whatever the terminal outcome (delivered,
\* exhausted, cancelled, failed, failed with the error report raising too).
C2_EndJobAlwaysRuns ==
    \A j \in Running :
      (job[j].started /\ job[j].pc = "done")
      => (job[j].ended /\ ~activeJobs[req[j].user].present)

C2_Witness ==
    \E j \in Running :
      /\ job[j].pc = "done" /\ job[j].started /\ job[j].ended
      /\ job[j].outcome = "failed" /\ job[j].escaped
      /\ job[j].valid_assets # <<>>

\* C3: every iteration of the search loop that does not return on
\* cancellation adds at least 1 to attempts, so the number of iterations
\* begun never exceeds maxAttempts (at the top of the loop, the iterations
\* completed so far are at most attempts).
C3_LoopIterationsBounded ==
    \A j \in Running :
      /\ job[j].iters <= job[j].max_attempts
      /\ job[j].pc = "loop" => job[j].iters <= job[j].attempts

C3_Witness ==
    \E j \in Running :
      /\ job[j].pc = "loop"
      /\ job[j].iters = job[j].max_attempts
      /\ job[j].iters >= 2
      /\ job[j].gw = "mixed"

\* C4: a job whose every gateway call returned an empty batch or an error
\* finishes with attempts <= maxAttempts, nothing collected, nothing sent and
\* the user's last-asset record untouched; unless it was cancelled or its
\* notification sink failed, it reports the no-matching-assets outcome.
C4_EmptyGatewayExhausts ==
    \A j \in Running :
      (job[j].pc = "done" /\ job[j].gw = "empty")
      => ( /\ job[j].attempts <= job[j].max_attempts
           /\ job[j].valid_assets = <<>>
           /\ job[j].sent = <<>>
           /\ job[j].recorded = <<>>
           /\ get_last_asset(lastAsset, req[j].user) = NoAssetState
           /\ (~job[j].cancelSeen /\ ~job[j].raised)
                => (job[j].outcome = "exhausted"
                    /\ job[j].attempts = job[j].max_attempts) )

C4_Witness ==
    \E j \in Running :
      /\ job[j].pc = "done" /\ job[j].gw = "empty"
      /\ job[j].outcome = "exhausted"
      /\ job[j].max_attempts = MaxAttemptsBound
      /\ job[j].iters = MaxAttemptsBound

\* C5: a request whose minBytes is set and greater than the tier's limit
\* never calls start_job, never calls the gateway, leaves both registries
\* as they were, and does nothing but report the error and return.
C5_MinAboveLimitRejected ==
    \A j \in Running :
      (req[j].min_size # NoSize /\ req[j].min_size > Limit(j))
      => ( /\ ~job[j].started
           /\ job[j].gw = "none"
           /\ ~activeJobs[req[j].user].present
           /\ get_last_asset(lastAsset, req[j].user) = NoAssetState
           /\ job[j].pc \in {"idle", "reject_edit", "done"}
           /\ job[j].pc = "done" => job[j].outcome = "rejected" )

C5_Witness ==
    \E j \in Running :
      /\ accountType[req[j].user] = "basic"
      /\ req[j].min_size = 30000000
      /\ job[j].pc = "done" /\ job[j].outcome = "rejected" /\ ~job[j].escaped

\* C6: every collected asset satisfies the requested filter: its type is
\* mediaType when set, its size is >= minBytes when set and <= maxBytes
\* when set, where any value the size parser returned (0 included) is set.
C6_CollectedSatisfyFilter ==
    \A j \in Running :
      \A i \in DOMAIN job[j].valid_assets :
        LET a == job[j].valid_assets[i] IN
        /\ req[j].media_type # NoMedia => AssetType(a) = req[j].media_type
        /\ req[j].min_size # NoSize => AssetSize(a) >= req[j].min_size
        /\ req[j].max_size # NoSize => AssetSize(a) <= req[j].max_size

\* C7: no collected (hence no counted or sent) asset is larger than the
\* requesting user's account-tier limit, whatever the filter.
C7_OversizeNeverCollected ==
    \A j \in Running :
      /\ \A i \in DOMAIN job[j].valid_assets :
           AssetSize(job[j].valid_assets[i]) <= Limit(j)
      /\ \A k \in DOMAIN job[j].sent : job[j].sent[k] \in DOMAIN job[j].valid_assets

\* an oversize candidate with good metadata and no filter in its way has
\* been passed over
C7_Witness ==
    \E j \in Running :
      /\ job[j].pc = "for" /\ job[j].idx = 2
      /\ job[j].info = "ok"
      /\ AssetSize(job[j].assets[1]) > Limit(j)
      /\ req[j].max_size = NoSize /\ req[j].min_size = NoSize
      /\ req[j].media_type = NoMedia
      /\ job[j].attempts <= job[j].max_attempts
      /\ job[j].valid_assets = <<>>

\* C8: a request whose maxBytes exceeds the account limit is started (it is
\* rejected only for its minBytes) and collects, candidate by candidate,
\* what the same request with maxBytes = the account limit collects.
C8_MaxAboveLimitClamped ==
    \A j \in Running :
      (req[j].max_size # NoSize /\ req[j].max_size > Limit(j))
      => ( /\ job[j].twin = job[j].valid_assets
           /\ (job[j].pc # "idle" /\ ~(req[j].min_size > Limit(j)))
                => job[j].started )

C8_Witness ==
    \E j \in Running :
      /\ req[j].max_size > Limit(j)
      /\ accountType[req[j].user] = "nitro_basic"
      /\ job[j].outcome = "delivered"
      /\ job[j].skipped
      /\ \E i \in DOMAIN job[j].valid_assets :
           AssetSize(job[j].valid_assets[i]) > DISCORD_UPLOAD_LIMITS["basic"]

\* C9: a job whose loop observed should_cancel(u) = true sends no asset
\* file, however many it had collected, and records no last asset.
C9_CancelledSendsNothing ==
    \A j \in Running :
      (job[j].cancelSeen \/ job[j].outcome = "cancelled")
      => ( /\ job[j].sent = <<>>
           /\ job[j].recorded = <<>>
           /\ job[j].send_idx = 0
           /\ get_last_asset(lastAsset, req[j].user) = NoAssetState )

C9_Witness ==
    \E j \in Running :
      /\ job[j].outcome = "cancelled"
      /\ Len(job[j].valid_assets) >= 1

\* C10: delivery sends the collected assets in collection order, each
\* position at most once; set_last_asset follows each successful send, so
\* the user's last-asset record names the last asset successfully sent.
C10_DeliveryInOrder ==
    \A j \in Running :
      LET r == job[j] IN
      /\ \A k \in DOMAIN r.sent : r.sent[k] \in DOMAIN r.valid_assets
      /\ \A k, l \in DOMAIN r.sent : k < l => r.sent[k] < r.sent[l]
      /\ r.pc = "send" => \A k \in DOMAIN r.sent : r.sent[k] < r.send_idx
      /\ r.recorded = [k \in DOMAIN r.sent |-> r.valid_assets[r.sent[k]]]
      /\ r.sent # <<>> =>
           get_last_asset(lastAsset, req[j].user) =
             [asset_id |-> r.valid_assets[r.sent[Len(r.sent)]],
              message_id |-> <<j, r.sent[Len(r.sent)]>>]
      /\ r.outcome = "delivered" => r.send_idx = Len(r.valid_assets)

C10_Witness ==
    \E j \in Running :
      /\ job[j].outcome = "delivered"
      /\ job[j].sent = <<1, 2>>
      /\ job[j].valid_assets[1] # job[j].valid_assets[2]
      /\ get_last_asset(lastAsset, req[j].user).asset_id = job[j].valid_assets[2]

\* ------------------------------------------------------- registry claims
OthersKept(u) == \A v \in Users \ {u} : activeJobs[v] = regOp.before[v]

\* C11: start_job(u, m) leaves exactly one entry for u, a fresh one with
\* should_cancel = FALSE and search message m, whatever entry u had before
\* (a cancel requested on the replaced entry included); the entries of the
\* other users are untouched.
C11_StartJobReplaces ==
    regOp.name = "start_job"
    => ( /\ activeJobs[regOp.user] =
              [present |-> TRUE, should_cancel |-> FALSE,
               message |-> regOp.message]
         /\ ~should_cancel(activeJobs, regOp.user)
         /\ get_search_message(activeJobs, regOp.user) = regOp.message
         /\ OthersKept(regOp.user) )

C11_Witness ==
    /\ regOp.name = "start_job"
    /\ regOp.before[regOp.user].present
    /\ regOp.before[regOp.user].should_cancel
    /\ regOp.before[regOp.user].message # regOp.message

\* C12: should_cancel(u) is FALSE right after start_job(u); cancel_job(u) on
\* a registered u returns TRUE and sets the flag, which then stays set until
\* end_job(u) or a new start_job(u); on an unregistered u cancel_job returns
\* FALSE and should_cancel returns FALSE, neither creating an entry; end_job
\* on an unregistered u changes nothing.
C12_CancelProtocol ==
    LET u == regOp.user
        was == regOp.before
    IN /\ regOp.name = "start_job" => ~should_cancel(activeJobs, u)
       /\ regOp.name = "cancel_job" =>
            /\ regOp.ret = was[u].present
            /\ was[u].present => /\ should_cancel(activeJobs, u)
                                 /\ activeJobs[u].message = was[u].message
            /\ ~was[u].present => activeJobs = was
            /\ OthersKept(u)
       /\ regOp.name = "should_cancel" =>
            /\ regOp.ret = (was[u].present /\ was[u].should_cancel)
            /\ activeJobs = was
       /\ regOp.name = "end_job" =>
            /\ ~activeJobs[u].present
            /\ ~was[u].present => activeJobs = was
            /\ OthersKept(u)
       /\ \A v \in Users :
            ( /\ was[v].present
              /\ was[v].should_cancel
              /\ ~(regOp.name \in {"start_job", "end_job"} /\ u = v) )
            => should_cancel(activeJobs, v)

C12_Witness ==
    /\ regOp.name = "cancel_job"
    /\ ~regOp.ret
    /\ ~activeJobs[regOp.user].present
    /\ \E v \in Users : should_cancel(activeJobs, v)

\* --------------------------------------------------------- parser claims
Parsed == {j \in Jobs : cmd[j].issued /\ job[j].pc # "cmd"}
CountWords(args) ==
    {i \in 1..Len(args) : StartsWith(lower(args[i]), CountPrefix)}
LastCountText(args) ==
    LET i == CHOOSE k \in CountWords(args) : \A m \in CountWords(args) : m <= k
    IN From(args[i], 6)

\* the texts after count: that denote an integer, with the integer denoted
C13_Integers == {<< <<"5">>, 5 >>, << <<"1", "0">>, 10 >>, << <<"1">>, 1 >>,
                 << <<"0", "5">>, 5 >>, << <<"7">>, 7 >>,
                 << <<"1", "1">>, 11 >>, << <<"0">>, 0 >>,
                 << <<"-", "1">>, 0 - 1 >>}
C13_NonIntegers == {<<"x">>, <<"1", "x">>, <<>>}

\* C13: the count parse_random_args returns is always in 1..10: a count:
\* argument denoting an integer in 1..10 is returned unchanged; one that is
\* absent, not an integer, or outside 1..10 yields 1 (the last count:
\* argument of a command decides).
C13_CountInRange ==
    \A j \in Parsed :
      LET args == cmd[j].args IN
      /\ req[j].count \in 1..10
      /\ CountWords(args) = {} => req[j].count = 1
      /\ CountWords(args) # {} =>
           /\ \A p \in C13_Integers :
                p[1] = LastCountText(args)
                => req[j].count = IF p[2] \in 1..10 THEN p[2] ELSE 1
           /\ LastCountText(args) \in C13_NonIntegers => req[j].count = 1
           /\ \/ LastCountText(args) \in C13_NonIntegers
              \/ \E p \in C13_Integers : p[1] = LastCountText(args)

C13_Witness ==
    \E j \in Parsed :
      /\ Len(cmd[j].args) = 2
      /\ CountWords(cmd[j].args) = {1, 2}
      /\ From(cmd[j].args[1], 6) = <<"1", "0">>
      /\ LastCountText(cmd[j].args) = <<"1", "1">>
      /\ req[j].count = 1

SizeWords(args) ==
    {i \in 1..Len(args) : \/ StartsWith(lower(args[i]), MinPrefix)
                          \/ StartsWith(lower(args[i]), MaxPrefix)}
CarriesInvalidSize(args) ==
    \E i \in SizeWords(args) : parse_size_string(From(args[i], 4)) = NoSize

\* C14: a `random` command carrying a min: or max: word whose size string
\* parse_size_string turns into None starts no job: start_job is not called
\* and no gateway call is made.
C14_InvalidSizeRejected ==
    \A j \in Jobs :
      (cmd[j].issued /\ CarriesInvalidSize(cmd[j].args))
      => (~job[j].started /\ job[j].gw = "none")

\* ------------------------------------------------------ error reporting
\* C15: when an exception ends a discovery job, the text put in front of
\* the user does not contain the exception's own string.
C15_NoRawExceptionShown ==
    \A j \in Running :
      job[j].raised => job[j].shown.error \notin ExcStrings

\* --------------------------------------------------- last-asset claims
\* this step is the handling of command `name` by u on x, with result ok
CogDid(name, u, x, ok) ==
    /\ cogOp' # cogOp
    /\ cogOp' = [name |-> name, user |-> u, asset |-> x, ok |-> ok]

\* C16: a successful delete of asset x by user u clears the record that
\* StateManager.get_last_asset(u) returns when that record names x, and
\* leaves it unchanged when it names another asset.
C16_DeleteClearsLastAsset ==
    [][\A u \in Users, x \in Assets :
         CogDid("delete", u, x, TRUE)
         => lastAsset' = IF get_last_asset(lastAsset, u).asset_id = x
                         THEN clear_last_asset(lastAsset, u)
                         ELSE lastAsset]_vars

\* this step delivers asset x to user u
Delivered(u, x) ==
    \/ CogDid("get", u, x, TRUE)
    \/ \E j \in Jobs : /\ req[j].user = u
                       /\ job[j].pc = "send"
                       /\ job'[j].sent # job[j].sent
                       /\ x = job[j].valid_assets[job[j].send_idx]

\* C17: every successful delivery of an asset x to user u, by `get` or by
\* random discovery, leaves x in the record StateManager.get_last_asset(u)
\* returns, the one `favorite last` and `unfavorite last` act on.
C17_DeliveryRecordsLastAsset ==
    [][\A u \in Users, x \in Assets :
         Delivered(u, x) => get_last_asset(lastAsset', u).asset_id = x]_vars

\* ---------------------------------------------------- preference claims
\* the value texts of the commands with what they denote
C18_Sizes == {<< <<"2", "m", "b">>, 2000000 >>,
              << <<"3", "0", "m", "b">>, 30000000 >>}
C18_Integers == {<< <<"2">>, 2 >>}
C18_Media == {<< ImageWord, "image" >>, << <<"A", "L", "L">>, NoMedia >>}
C18_Tiers == {<< <<"N", "i", "t", "r", "o">>, "nitro" >>}

\* C18: whenever `prefs set <setting> <value>` was acknowledged as
\* updated, the user's stored record holds the value under the setting:
\* max_attempts, update_interval, media_type, min_size, max_size and
\* account_type alike.
C18_AckedSetIsStored ==
    (prefOp.name = "set" /\ prefOp.acked)
    => LET rec == get_user_preferences(user_preferences, prefOp.user)[prefOp.user]
           v == prefOp.value
       IN /\ prefOp.setting = "max_attempts" =>
               \A p \in C18_Integers : p[1] = v => rec.max_attempts = p[2]
          /\ prefOp.setting = "update_interval" =>
               \A p \in C18_Integers :
                 p[1] = v => rec.progress_update_interval = p[2]
          /\ prefOp.setting = "media_type" =>
               \A p \in C18_Media : p[1] = v => rec.default_media_type = p[2]
          /\ prefOp.setting = "min_size" =>
               \A p \in C18_Sizes : p[1] = v => rec.min_size_bytes = p[2]
          /\ prefOp.setting = "max_size" =>
               \A p \in C18_Sizes : p[1] = v => rec.max_size_bytes = p[2]
          /\ prefOp.setting = "account_type" =>
               \A p \in C18_Tiers : p[1] = v => rec.account_type = p[2]

GivesMedia(args) ==
    \E i \in 1..Len(args) : lower(args[i]) \in {ImageWord, VideoWord}
GivesMin(args) ==
    \E i \in 1..Len(args) : StartsWith(lower(args[i]), MinPrefix)

\* C19: a `random` command that gives no media type collects only assets
\* of the user's stored default media type, when one is stored; one that
\* gives no min: collects only assets of at least the stored minimum size,
\* when one is stored.
C19_StoredDefaultsApplied ==
    \A j \in Jobs :
      cmd[j].issued =>
        LET prefs == user_preferences[req[j].user] IN
        \A i \in DOMAIN job[j].valid_assets :
          LET a == job[j].valid_assets[i] IN
          /\ (~GivesMedia(cmd[j].args) /\ prefs.default_media_type # NoMedia)
             => AssetType(a) = prefs.default_media_type
          /\ (~GivesMin(cmd[j].args) /\ prefs.min_size_bytes # NoSize)
             => AssetSize(a) >= prefs.min_size_bytes

\* C20: loading a preferences file in which a user's record lacks fields
\* gives that user a record with every key of the defaults: each key the
\* file has keeps the file's value, each missing key takes the default,
\* and no key of the file is dropped.
C20_LoadBackfillsDefaults ==
    (prefOp.name = "load" /\ prefOp.file.kind = "json")
    => \A u \in DOMAIN prefOp.file.prefs :
         /\ u \in DOMAIN user_preferences
         /\ LET inFile == prefOp.file.prefs[u]
                rec == user_preferences[u]
            IN /\ DOMAIN rec = DOMAIN inFile \cup DOMAIN DEFAULT_PREFERENCES
               /\ \A key \in DOMAIN rec :
                    rec[key] = IF key \in DOMAIN inFile
                               THEN inFile[key]
                               ELSE DEFAULT_PREFERENCES[key]

C20_Witness ==
    /\ prefOp.name = "load"
    /\ prefOp.file.kind = "json"
    /\ DOMAIN prefOp.file.prefs = {1, 2}
    /\ DOMAIN prefOp.file.prefs[1] = {"account_type", "min_size_bytes", "theme"}
    /\ user_preferences[1].account_type = "nitro"
    /\ user_preferences[1].min_size_bytes = 2000000
    /\ user_preferences[1].max_attempts = 50
    /\ user_preferences[1].theme = "dark"
    /\ prefsFile = JsonFile(user_preferences)


\* ---------------------------------------------------- concurrency claims
\* a step of invocation k
JobStep(k) ==
    \/ Begin(k) \/ RejectReport(k) \/ StartReport(k) \/ LoopExit(k)
    \/ LoopCancel(k) \/ LoopFetch(k) \/ GatewayCall(k) \/ RetryReport(k)
    \/ Gather(k) \/ ForHead(k) \/ ForEdit(k) \/ FoundReport(k)
    \/ NoResultReport(k) \/ CancelReport(k) \/ DeleteMsg(k) \/ Send(k)
    \/ Handler(k)

\* invocation j is inside a gateway call: the random-batch request, or the
\* for-loop pass that fetches a candidate's data
InGatewayCall(j) == job[j].pc \in {"fetch", "for"}

\* C21: while one user's job is waiting on a gateway call, a job of another
\* user that is ready to go on (it is at an await whose result has arrived)
\* can take its step, and another user's cancel command can be handled.
C21_GatewayCallDoesNotStall ==
    \A j \in Jobs :
      InGatewayCall(j)
      => /\ \A k \in Jobs \ {j} :
              (req[k].user # req[j].user /\ job[k].pc \in AwaitPcs)
              => ENABLED JobStep(k)
         /\ \A u \in Users \ {req[j].user} :
              cancelCmd[u].pc = "idle" => ENABLED CancelCommand(u)

\* C30: every invocation that is in its search loop has a job entry
\* registered for its user, so cancel_job returns true for it, also when
\* the same user started a second request while the first was searching.
C30_SearchingJobIsRegistered ==
    \A j \in Jobs :
      Searching(job[j])
      => /\ activeJobs[req[j].user].present
         /\ cancel_job_result(activeJobs, req[j].user)

\* C22: the attempt budget of a job is the max_attempts read when it
\* started, whatever `prefs set max_attempts` or `prefs reset` stored since:
\* the job's bound never changes, the loop asks for another batch only
\* while attempts is below it, and leaves short of count only at or above it.
C22_BudgetIsStartSnapshot ==
    [][\A j \in Jobs :
         /\ (job[j].started /\ job'[j].started)
              => job'[j].max_attempts = job[j].max_attempts
         /\ (job[j].pc = "loop" /\ job'[j].pc = "fetch")
              => job[j].attempts < job[j].max_attempts
         /\ ( /\ job[j].pc = "loop"
              /\ job'[j].pc \in {"noresult_edit", "delete_msg"}
              /\ Len(job[j].valid_assets) < req[j].count )
              => job[j].attempts >= job[j].max_attempts]_vars

\* the stored value was lowered to 1 while the job ran, and the job, one
\* attempt spent, asked for its second batch
C22_Witness ==
    /\ job[1].pc = "fetch"
    /\ job[1].attempts = 1
    /\ job[1].max_attempts = 2
    /\ maxAttempts[1] = 1
    /\ user_preferences[1].max_attempts = 1

\* C23: the size limit a job applies to its candidates is the limit of the
\* account type read when it started: no collected asset is larger than
\* that limit, whatever account type was stored since.
C23_LimitIsStartSnapshot ==
    \A j \in Jobs :
      \A i \in DOMAIN job[j].valid_assets :
        AssetSize(job[j].valid_assets[i]) <= job[j].account_max_size

\* C24: once cancel_job(u) has returned true for a running job of u (u's
\* entry carries the cancellation flag), that job requests no further
\* batch from the gateway: it only finishes the pass over the batch it
\* holds, which has at most 5 candidates.  The flag is never set while a
\* job is inside a gateway call.
C24_CancelStopsAtLoopTop ==
    [][\A j \in Jobs :
         LET u == req[j].user IN
         /\ (job[j].cancelHit /\ ~job[j].ended)
            => \/ job'[j].ended
               \/ /\ job'[j].pc # "fetch"
                  /\ job'[j].iters = job[j].iters
                  /\ job'[j].assets \in {job[j].assets, <<>>}
                  /\ Len(job'[j].assets) <= BatchCap
         /\ (activeJobs'[u].should_cancel /\ ~activeJobs[u].should_cancel)
            => /\ job[j].pc \notin {"fetch", "for"}
               /\ job'[j].pc = job[j].pc]_vars

\* ------------------------------------------------------- delivery claims
\* C27: in the delivery phase a send that returns no message does not end
\* the delivery: the loop goes on to every remaining collected asset, only
\* assets whose send returned a message are recorded as last asset, and the
\* job's entry is removed at the end.
C27_FailedSendDoesNotAbort ==
    \A j \in Running :
      LET r == job[j]
          u == req[j].user
      IN /\ r.pc = "send"
              => /\ r.send_idx \in 1..Len(r.valid_assets)
                 /\ \A k \in DOMAIN r.sent : r.sent[k] < r.send_idx
         /\ (r.pc = "done" /\ r.outcome = "delivered")
              => /\ r.send_idx = Len(r.valid_assets)
                 /\ r.ended
                 /\ ~activeJobs[u].present
         /\ r.recorded = [k \in DOMAIN r.sent |-> r.valid_assets[r.sent[k]]]
         /\ get_last_asset(lastAsset, u) =
              IF r.sent = <<>> THEN NoAssetState
              ELSE [asset_id |-> r.valid_assets[r.sent[Len(r.sent)]],
                    message_id |-> <<j, r.sent[Len(r.sent)]>>]

\* the first of two collected assets could not be sent, the second was
C27_Witness ==
    \E j \in Running :
      /\ job[j].pc = "done" /\ job[j].outcome = "delivered"
      /\ Len(job[j].valid_assets) = 2
      /\ job[j].sent = <<2>>
      /\ get_last_asset(lastAsset, req[j].user).asset_id = job[j].valid_assets[2]

\* ----------------------------------------------------------- size claims
\* C28: parse_size_string returns n * 1,000,000 for a whole magnitude n
\* followed by mb and n * 1,000 for one followed by kb, the unit in any
\* letter case; it returns the invalid result for the empty text, for a
\* text with no unit or an unknown one, and for a magnitude that is not a
\* number.
C28_ParseSizeString ==
    sizeOp.name = "parsed"
    => /\ sizeOp.class = "whole"
            => sizeOp.value =
                 sizeOp.n * (IF lower(sizeOp.unit) = <<"m", "b">>
                             THEN 1000000 ELSE 1000)
       /\ sizeOp.class \in {"empty", "no unit", "unknown unit", "not a number"}
            => sizeOp.value = NoSize

\* C29: parsing the text format_file_size made of n gives n back to within
\* a hundredth of the unit the text is in (MB for n >= 1,000,000, else KB),
\* and the text has two decimals, a space and that unit.
C29_FormatParseRoundTrip ==
    (sizeOp.name = "parsed" /\ sizeOp.class = "formatted")
    => LET n == sizeOp.n
           t == sizeOp.text
           unit == IF n >= 1000000 THEN 1000000 ELSE 1000
           diff == IF sizeOp.value >= n THEN sizeOp.value - n
                                        ELSE n - sizeOp.value
       IN /\ sizeOp.value >= 0
          /\ 100 * diff <= unit
          /\ Len(t) >= 7
          /\ t[Len(t) - 5] = "."
          /\ SubSeq(t, Len(t) - 2, Len(t)) =
               IF n >= 1000000 THEN <<" ", "M", "B">> ELSE <<" ", "K", "B">>

\* 999 bytes are shown as 1.00 KB and come back as 1000
C29_Witness ==
    /\ sizeOp.name = "parsed" /\ sizeOp.class = "formatted"
    /\ sizeOp.n = 999
    /\ sizeOp.text = <<"1", ".", "0", "0", " ", "K", "B">>
    /\ sizeOp.value = 1000

\* C25: while a job is searching, any two progress reports in a row (edits of
\* the command message that show the search progress) are at least the
\* user's progress_update_interval seconds apart.
C25_ReportsAreAnIntervalApart ==
    \A j \in Jobs :
      job[j].gap # NoClock
      => job[j].gap >= user_preferences[req[j].user].progress_update_interval

\* C26: metadata is fetched from the gateway for every candidate of every
\* job: what one invocation obtained is never reused by a later one, so a
\* candidate that comes up again in a later job is asked about again.
C26_MetadataIsFetchedPerJob ==
    \A j \in Jobs : ~job[j].reused

\* C31: no job entry is leaked.  Whenever every invocation of
\* process_random_assets that user u started has returned, the registry
\* holds no entry for u, however u's requests and cancel commands overlap.
C31_NoJobEntryLeaked ==
    \A u \in Users :
      (\A j \in Jobs : req[j].user = u => ~(job[j].started /\ ~job[j].ended))
      => ~activeJobs[u].present

\* two requests of user 1 have both returned, a cancel command found an
\* entry while each of them was under way, and only the first was cancelled
C31_Witness ==
    /\ \A j \in Jobs : /\ req[j].user = 1
                       /\ job[j].started /\ job[j].ended /\ job[j].cancelHit
    /\ job[1].outcome = "cancelled"
    /\ job[2].outcome # "cancelled"
    /\ ~activeJobs[1].present

\* C32: whatever preference commands were handled since the defaults, a
\* stored min_size_bytes that is set does not exceed the size limit of the
\* account type stored with it.
C32_StoredMinWithinLimit ==
    \A u \in DOMAIN user_preferences :
      user_preferences[u].min_size_bytes # NoSize
      => user_preferences[u].min_size_bytes
           <= DISCORD_UPLOAD_LIMITS[user_preferences[u].account_type]

\* C33: one request never delivers the same asset twice: the ids collected
\* by one invocation are pairwise distinct, also when the gateway returns a
\* candidate in more than one batch or twice in one batch.
C33_CollectedAreDistinct ==
    \A j \in Jobs :
      \A a, b \in DOMAIN job[j].valid_assets :
        a # b => job[j].valid_assets[a] # job[j].valid_assets[b]

\* C34: the attempts figure of a progress report, or of the final message
\* that no matching assets were found, never exceeds the job's maxAttempts.
\* The text of an edit is built before the edit is awaited, so the figure
\* shown is the job's attempts while the edit is pending.
C34_ShownAttemptsWithinBudget ==
    \A j \in Jobs :
      (/\ job[j].pc \in {"retry_edit", "for_edit", "found_edit", "noresult_edit"}
       /\ j \notin msgDeleted)
      => job[j].attempts <= job[j].max_attempts

\* C35: a job never holds more collected assets than the count asked for,
\* a batch pass never has more than min(5, count - collected) candidates,
\* and the job never sends more files than the count asked for.
C35_CountBoundsTheJob ==
    \A j \in Jobs :
      LET r == job[j]
          count == req[j].count
      IN /\ Len(r.valid_assets) <= count
         /\ r.pc = "gather"
              => Len(r.assets) <= Min(5, count - Len(r.valid_assets))
         /\ Len(r.assets) <= Min(5, count)
         /\ r.idx <= Len(r.assets)
         /\ Len(r.sent) <= count
         /\ r.send_idx <= count

\* six assets were asked for, the pass has five candidates, and the second
\* of them has just been collected
C35_Witness ==
    \E j \in Jobs :
      /\ req[j].count = 6
      /\ job[j].pc = "found_edit"
      /\ Len(job[j].assets) = 5
      /\ job[j].idx = 2
      /\ Len(job[j].valid_assets) = 2

\* C38: a delete whose gateway call fails leaves the cog's
\* last_fetched_asset as it was; a delete whose gateway call succeeds
\* clears the user's record exactly when it names the deleted asset; the
\* records of other users are never touched.
C38_DeleteAndLastFetched ==
    [][\A u \in Users, x \in Assets :
         /\ CogDid("delete", u, x, FALSE)
              => last_fetched_asset' = last_fetched_asset
         /\ CogDid("delete", u, x, TRUE)
              => last_fetched_asset' =
                   [last_fetched_asset EXCEPT
                      ![u] = IF @ = x THEN NoAsset ELSE @]]_vars

\* C36: once on_ready has gone through its list, no two cogs have defined a
\* command of the same name, every extension of the list is loaded, and the
\* `random` and `cancel` commands are those of random_commands and the
\* `favorite` and `unfavorite` commands those of favorite_commands.
C36_EveryExtensionLoads ==
    startup.next > Len(CogCommands)
    => /\ \A i, k \in DOMAIN CogCommands :
            i # k => CogCommands[i].names \cap CogCommands[k].names = {}
       /\ startup.loaded = {CogCommands[i].ext : i \in DOMAIN CogCommands}
       /\ {<<"random", "random_commands">>, <<"cancel", "random_commands">>,
           <<"favorite", "favorite_commands">>,
           <<"unfavorite", "favorite_commands">>} \subseteq startup.commands

\* C37: an invocation of AssetCommands.random that has begun comes to its
\* end, the command message deleted or its deletion attempted.
C37_DirectRandomTerminates ==
    \A u \in Users : (direct[u].pc = "request") ~> (direct[u].pc = "done")

====
